---- MODULE Spec2Model ----
(***************************************************************************)
(* PulseBoard: the asynchronous event-processing pipeline.                 *)
(*                                                                         *)
(* The store (table "events"), the ingestion endpoints of app/api/v1, the  *)
(* gateway operations of EventService and the two Celery tasks of          *)
(* app/workers/tasks.py (process_event, process_events_batch).  A task     *)
(* execution is split at its store accesses (fetch, commit), so that two   *)
(* deliveries for the same event id interleave the way two worker          *)
(* processes do.                                                           *)
(***************************************************************************)
EXTENDS Integers, Sequences, FiniteSets, TLC

(***************************************************************************)
(* Bounds of the model.                                                    *)
(***************************************************************************)
MaxEvents == 1
MaxTasks == 2
MaxGatewayOps == 2
MaxFailures == 1
MaxRequests == 2
MaxNest == 12
\* derived: rows in the store of SpecBatch, longest id list of a batch
BatchRows == MaxEvents + 1
MaxBatchLen == BatchRows + 1

(***************************************************************************)
(* Program constants.                                                      *)
(***************************************************************************)
EVENT_MAX_RETRIES == 3
EVENT_RETRY_DELAY == 60
MAX_DEPTH == 10
MAX_PAYLOAD_SIZE == 1048576
MAX_ERROR_LEN == 255

(***************************************************************************)
(* Optional values: None is Python's None / SQL NULL.                      *)
(***************************************************************************)
None == <<>>
Some(x) == <<x>>
The(o) == o[1]

Min(a, b) == IF a <= b THEN a ELSE b

RECURSIVE Pow2(_)
Pow2(n) == IF n = 0 THEN 1 ELSE 2 * Pow2(n - 1)

(***************************************************************************)
(* JSON values.  A value is a tagged record; a dict is the sequence of its *)
(* items in insertion order, a string is the sequence of its characters.   *)
(***************************************************************************)
JNull == [t |-> "null", v |-> 0]
JBool(b) == [t |-> "bool", v |-> b]
JNum(n) == [t |-> "num", v |-> n]
JFloat(n) == [t |-> "float", v |-> n]
JStr(s) == [t |-> "str", v |-> s]
JList(items) == [t |-> "list", v |-> items]
JDict(items) == [t |-> "dict", v |-> items]
JObj == [t |-> "object", v |-> 0]
\* values too long to spell out: a string of n characters none of which is
\* a digit or a space, and an integer of d decimal digits, more digits than
\* the largest float has
JText(n) == [t |-> "text", v |-> n]
JBig(d) == [t |-> "int", v |-> d]
Item(k, x) == [k |-> k, x |-> x]

HasKey(d, k) == \E i \in 1..Len(d.v) : d.v[i].k = k
\* dict.get(k) of a key that is present: the value of its item
Get(d, k) == d.v[CHOOSE i \in 1..Len(d.v) : d.v[i].k = k].x

RECURSIVE SumSeq(_)
SumSeq(s) == IF s = <<>> THEN 0 ELSE Head(s) + SumSeq(Tail(s))

RECURSIVE NumDigits(_)
NumDigits(n) == IF n < 10 THEN 1 ELSE 1 + NumDigits(n \div 10)

\* json.dumps raises TypeError on a leaf that is no JSON type
RECURSIVE Serializable(_)
Serializable(x) ==
    CASE x.t = "object" -> FALSE
      [] x.t = "list" -> \A i \in 1..Len(x.v) : Serializable(x.v[i])
      [] x.t = "dict" -> \A i \in 1..Len(x.v) : Serializable(x.v[i].x)
      [] OTHER -> TRUE

\* len(json.dumps(x)) with the default separators ", " and ": "
RECURSIVE JsonLen(_)
JsonLen(x) ==
    CASE x.t = "null" -> 4
      [] x.t = "bool" -> IF x.v THEN 4 ELSE 5
      [] x.t = "num" -> NumDigits(x.v)
      [] x.t = "float" -> NumDigits(x.v) + 2
      [] x.t = "str" -> Len(x.v) + 2
      [] x.t = "text" -> x.v + 2
      [] x.t = "int" -> x.v
      [] x.t = "list" ->
            2 + SumSeq([i \in 1..Len(x.v) |-> JsonLen(x.v[i])])
              + (IF Len(x.v) > 1 THEN 2 * (Len(x.v) - 1) ELSE 0)
      [] x.t = "dict" ->
            2 + SumSeq([i \in 1..Len(x.v) |->
                          Len(x.v[i].k) + 2 + 2 + JsonLen(x.v[i].x)])
              + (IF Len(x.v) > 1 THEN 2 * (Len(x.v) - 1) ELSE 0)
      [] OTHER -> 0

\* check_depth: TRUE iff the walk raises "exceeds max nesting depth"
RECURSIVE DepthExceeded_AtLimit(_, _)
DepthExceeded_AtLimit(obj, depth) ==
    IF depth >= MAX_DEPTH THEN TRUE
    ELSE CASE obj.t = "dict" ->
                \E i \in 1..Len(obj.v) : DepthExceeded_AtLimit(obj.v[i].x, depth + 1)
           [] obj.t = "list" ->
                \E i \in 1..Len(obj.v) : DepthExceeded_AtLimit(obj.v[i], depth + 1)
           [] OTHER -> FALSE

RECURSIVE DepthExceeded(_, _)
DepthExceeded(obj, depth) ==
    IF depth > MAX_DEPTH THEN TRUE
    ELSE CASE obj.t = "dict" ->
                \E i \in 1..Len(obj.v) : DepthExceeded(obj.v[i].x, depth + 1)
           [] obj.t = "list" ->
                \E i \in 1..Len(obj.v) : DepthExceeded(obj.v[i], depth + 1)
           [] OTHER -> FALSE

(***************************************************************************)
(* Error messages: the text up to the variable part, and the length.       *)
(***************************************************************************)
Msg(text, len) == [text |-> text, len |-> len]
\* message[:255]
Truncate(m) == [m EXCEPT !.len = Min(m.len, MAX_ERROR_LEN)]
\* f"{prefix}{str(e)}"
Prefixed(prefix, plen, m) == Msg(prefix, plen + m.len)

\* len(type(x).__name__)
TypeNameLen(x) ==
    CASE x.t = "str" -> 3
      [] x.t = "text" -> 3
      [] x.t = "num" -> 3
      [] x.t = "int" -> 3
      [] x.t = "bool" -> 4
      [] x.t = "list" -> 4
      [] x.t = "float" -> 5
      [] OTHER -> 6

\* validate_payload_shape: [ok, value] or [ok = FALSE, error]
ValidatePayloadShape_NoSizeLimit(payload) ==
    IF payload.t = "null" THEN [ok |-> TRUE, value |-> JDict(<<>>)]
    ELSE IF payload.t # "dict"
    THEN [ok |-> FALSE,
          error |-> Msg("Payload must be dict, got ", 26 + TypeNameLen(payload))]
    ELSE IF ~Serializable(payload)
    THEN [ok |-> FALSE, error |-> Msg("Payload not JSON-serializable: ", 31 + 45)]
    ELSE IF DepthExceeded(payload, 0)
    THEN [ok |-> FALSE, error |-> Msg("Payload exceeds max nesting depth (10)", 38)]
    ELSE [ok |-> TRUE, value |-> payload]
ValidatePayloadShape_EmptyMapping(payload) ==
    IF payload.t = "null" THEN [ok |-> TRUE, value |-> JDict(<<>>)]
    ELSE IF payload.t # "dict"
    THEN [ok |-> FALSE,
          error |-> Msg("Payload must be dict, got ", 26 + TypeNameLen(payload))]
    ELSE IF ~Serializable(payload)
    THEN [ok |-> FALSE, error |-> Msg("Payload not JSON-serializable: ", 31 + 45)]
    ELSE IF JsonLen(payload) > MAX_PAYLOAD_SIZE
    THEN [ok |-> FALSE, error |-> Msg("Payload exceeds 1MB size limit", 30)]
    ELSE IF DepthExceeded(payload, 0)
    THEN [ok |-> FALSE, error |-> Msg("Payload exceeds max nesting depth (10)", 38)]
    ELSE [ok |-> TRUE, value |-> JDict(<<>>)]
ValidatePayloadShape(payload) ==
    IF payload.t = "null" THEN [ok |-> TRUE, value |-> JDict(<<>>)]
    ELSE IF payload.t # "dict"
    THEN [ok |-> FALSE,
          error |-> Msg("Payload must be dict, got ", 26 + TypeNameLen(payload))]
    ELSE IF ~Serializable(payload)
    THEN [ok |-> FALSE, error |-> Msg("Payload not JSON-serializable: ", 31 + 45)]
    ELSE IF JsonLen(payload) > MAX_PAYLOAD_SIZE
    THEN [ok |-> FALSE, error |-> Msg("Payload exceeds 1MB size limit", 30)]
    ELSE IF DepthExceeded(payload, 0)
    THEN [ok |-> FALSE, error |-> Msg("Payload exceeds max nesting depth (10)", 38)]
    ELSE [ok |-> TRUE, value |-> payload]

(***************************************************************************)
(* String conversions used by normalize_event_payload.  Characters are     *)
(* one-character strings; the alphabet of the model is the digits, the     *)
(* space and whatever other characters the payloads carry.                 *)
(***************************************************************************)
Digits == <<"0", "1", "2", "3", "4", "5", "6", "7", "8", "9">>
IsDigit(c) == \E i \in 1..10 : Digits[i] = c
DigitValue(c) == (CHOOSE i \in 1..10 : Digits[i] = c) - 1
IsSpace(c) == c = " "

RECURSIVE IntToChars(_)
IntToChars(n) ==
    IF n < 10 THEN <<Digits[n + 1]>>
    ELSE Append(IntToChars(n \div 10), Digits[(n % 10) + 1])

RECURSIVE LStrip(_)
LStrip(s) == IF s # <<>> /\ IsSpace(Head(s)) THEN LStrip(Tail(s)) ELSE s

RECURSIVE RStrip(_)
RStrip(s) ==
    IF s # <<>> /\ IsSpace(s[Len(s)]) THEN RStrip(SubSeq(s, 1, Len(s) - 1)) ELSE s

\* str.strip()
Strip(s) == RStrip(LStrip(s))

\* str(x) of a payload value
StrOf(x) ==
    CASE x.t = "str" -> x.v
      [] x.t = "num" -> IntToChars(x.v)
      [] x.t = "float" -> IntToChars(x.v) \o <<".", "0">>
      [] x.t = "bool" -> IF x.v THEN <<"T", "r", "u", "e">>
                         ELSE <<"F", "a", "l", "s", "e">>
      [] x.t = "null" -> <<"N", "o", "n", "e">>
      [] x.t = "text" -> <<"x", "...">>
      [] x.t = "int" -> <<"1", "...">>
      [] x.t = "list" -> <<"[", "...", "]">>
      [] OTHER -> <<"{", "...", "}">>

RECURSIVE DigitsValue(_, _)
DigitsValue(s, acc) ==
    IF s = <<>> THEN acc
    ELSE DigitsValue(Tail(s), 10 * acc + DigitValue(Head(s)))

\* float(x): [ok, value, exc]; exc names the exception when ok = FALSE
ToFloat(x) ==
    CASE x.t = "num" -> [ok |-> TRUE, value |-> x.v, exc |-> "none"]
      [] x.t = "float" -> [ok |-> TRUE, value |-> x.v, exc |-> "none"]
      [] x.t = "bool" -> [ok |-> TRUE, value |-> IF x.v THEN 1 ELSE 0, exc |-> "none"]
      [] x.t = "str" ->
            LET s == Strip(x.v) IN
            IF s # <<>> /\ \A i \in 1..Len(s) : IsDigit(s[i])
            THEN [ok |-> TRUE, value |-> DigitsValue(s, 0), exc |-> "none"]
            ELSE [ok |-> FALSE, value |-> 0, exc |-> "ValueError"]
      [] x.t = "text" -> [ok |-> FALSE, value |-> 0, exc |-> "ValueError"]
      [] x.t = "int" -> [ok |-> FALSE, value |-> 0, exc |-> "OverflowError"]
      [] OTHER -> [ok |-> FALSE, value |-> 0, exc |-> "TypeError"]

\* except (ValueError, TypeError)
CoercionCaught(exc) == exc \in {"ValueError", "TypeError"}

\* the try/except around float(payload.get(key, 0))
FloatOrZero(x) == LET r == ToFloat(x) IN JFloat(IF r.ok THEN r.value ELSE 0)

\* float() raises past the except clause of the key
FloatEscapes(payload, key) ==
    /\ HasKey(payload, key)
    /\ LET r == ToFloat(Get(payload, key)) IN ~r.ok /\ ~CoercionCaught(r.exc)

\* normalize_event_payload raises instead of returning
NormalizeRaises(payload) ==
    FloatEscapes(payload, "duration") \/ FloatEscapes(payload, "scroll_depth")

\* str(e) of the OverflowError of float()
OverflowMsg == Msg("int too large to convert to float", 33)

LiftStr_Always(payload, key) ==
    <<Item(key, JStr(IF HasKey(payload, key)
                     THEN Strip(StrOf(Get(payload, key))) ELSE <<>>))>>
LiftStr(payload, key) ==
    IF HasKey(payload, key)
    THEN <<Item(key, JStr(Strip(StrOf(Get(payload, key)))))>>
    ELSE <<>>

LiftFloat(payload, key) ==
    IF HasKey(payload, key)
    THEN <<Item(key, FloatOrZero(Get(payload, key)))>>
    ELSE <<>>

\* normalize_event_payload at wall-clock time now
NormalizeEventPayload(payload, now) ==
    JDict(<<Item("original", payload),
            Item("normalized_at", [t |-> "iso", v |-> now])>>
          \o LiftStr(payload, "page")
          \o LiftStr(payload, "referrer")
          \o LiftFloat(payload, "duration")
          \o LiftFloat(payload, "scroll_depth"))

(***************************************************************************)
(* Inputs.                                                                 *)
(***************************************************************************)
Users == {"u1"}

RECURSIVE Nested(_)
\* a mapping nested n levels below the top-level mapping
Nested(n) == IF n = 0 THEN JDict(<<Item("leaf", JNum(1))>>)
             ELSE JDict(<<Item("level", Nested(n - 1))>>)

RECURSIVE Chain(_, _, _)
\* leaf under n nested containers, sequences (viaList) or mappings
Chain(n, leaf, viaList) ==
    IF n = 0 THEN leaf
    ELSE IF viaList THEN JList(<<JNum(0), Chain(n - 1, leaf, viaList)>>)
    ELSE JDict(<<Item("level", Chain(n - 1, leaf, viaList))>>)

\* payloads of every nesting up to MaxNest: a scalar next to a chain that
\* ends in a scalar, an empty mapping or an empty sequence
DepthPayloads ==
    {JDict(<<Item("page", JStr(<<"/">>)), Item("data", Chain(n, leaf, viaList))>>) :
       n \in 0..MaxNest,
       leaf \in {JNum(1), JDict(<<>>), JList(<<>>)},
       viaList \in BOOLEAN}

PageView == JDict(<<Item("page", JStr(<<"/", "h", "o", "m", "e", " ">>)),
                    Item("duration", JStr(<<"4", "5">>))>>)
TooDeep == Nested(12)

Payloads == {PageView, TooDeep}

\* EventCreate.properties: Optional[Dict], default None
ClientProperties == {None, Some(JDict(<<Item("plan", JStr(<<"p", "r", "o">>))>>))}

\* what the queue backend does with a task: it takes it, or it is down
BrokerOutcomes == {"none", "OperationalError"}

\* the exceptions of the queue backend: connectivity, serialization
BrokerFaults == {"OperationalError", "EncodeError"}

\* str(e) of the exception the store raises when it is unreachable
Exceptions == {Msg("(psycopg2.OperationalError)", 300)}

(***************************************************************************)
(* State.                                                                  *)
(*   store       the committed rows of table events; the id of a row is    *)
(*               its index (ids are assigned in sequence)                  *)
(*   tasks       the task instances known to the queue backend, with the   *)
(*               position and the session-local state of their execution;  *)
(*               execs, faults and delays record the executions started,   *)
(*               the store failures met and the countdowns asked for       *)
(*   clock       datetime.utcnow(); it is advanced when a timestamp read   *)
(*               from it is committed, so that two commits never carry     *)
(*               the same timestamp                                        *)
(*   gatewayOps  the direct gateway calls: how many were made, and the     *)
(*               last one with what it returned                            *)
(*   requests    the ingestion requests in flight: between their commit    *)
(*               and their dispatch, or with the response they return      *)
(***************************************************************************)
VARIABLES store, tasks, clock, gatewayOps, requests

vars == <<store, tasks, clock, gatewayOps, requests>>

EventIds == 1..MaxEvents
TaskIds == 1..MaxTasks
RequestIds == 1..Len(requests)

Exists(id) == id \in 1..Len(store)

\* Event(...) as EventService.create builds it; column defaults for the rest
NewEvent(user_id, event_name, event_type, payload, properties) ==
    [user_id |-> user_id,
     event_name |-> event_name,
     event_type |-> event_type,
     payload |-> payload,
     properties |-> properties,
     processed |-> FALSE,
     processed_at |-> None,
     processing_error |-> None]

NoTask ==
    [kind |-> "none", ids |-> <<>>, pc |-> "none", retries |-> 0, execs |-> 0,
     faults |-> 0, delays |-> <<>>, snap |-> None, result |-> None]

NewTask(kind, ids) == [NoTask EXCEPT !.kind = kind, !.ids = ids, !.pc = "queued"]

Free(t) == tasks[t].kind = "none"
HasFree == \E t \in TaskIds : Free(t)
FirstFree == CHOOSE t \in TaskIds : Free(t) /\ \A u \in TaskIds : Free(u) => t <= u

Init ==
    /\ store = <<>>
    /\ tasks = [t \in TaskIds |-> NoTask]
    /\ clock = 1
    /\ gatewayOps = [calls |-> 0, last |-> None]
    /\ requests = <<>>

(***************************************************************************)
(* session.flush(); session.commit(): the unit of work writes the          *)
(* attributes of obj whose value differs from the loaded one (loaded);     *)
(* the other columns of the row keep what is committed.                    *)
(***************************************************************************)
Flush(loaded, obj, row) ==
    [row EXCEPT
       !.properties = IF obj.properties # loaded.properties
                      THEN obj.properties ELSE @,
       !.processed = IF obj.processed # loaded.processed
                     THEN obj.processed ELSE @,
       !.processed_at = IF obj.processed_at # loaded.processed_at
                        THEN obj.processed_at ELSE @,
       !.processing_error = IF obj.processing_error # loaded.processing_error
                            THEN obj.processing_error ELSE @]

\* persist_event_to_db(session, event) of one object loaded as `loaded`
PersistEvent_FirstRow(id, loaded, obj) ==
    [store EXCEPT ![1] = Flush(loaded, obj, store[1])]
PersistEvent(id, loaded, obj) == [store EXCEPT ![id] = Flush(loaded, obj, store[id])]

(***************************************************************************)
(* Ingestion: POST /v1/events and POST /v1/events/batch.  A request takes  *)
(* two steps: the rows are created and committed, then the task is         *)
(* dispatched and the response is built.  Workers and other requests run   *)
(* between the two.                                                        *)
(***************************************************************************)
\* EventService.count_unprocessed: count(id) where processed = false
CountUnprocessed(st) == Len(SelectSeq(st, LAMBDA row : ~row.processed))

\* EventService.count_by_user: count(id) where user_id = :user_id
CountByUser_All(st, user_id) == Len(st)
CountByUser(st, user_id) == Len(SelectSeq(st, LAMBDA row : row.user_id = user_id))

NewRequest(route, ids) ==
    [route |-> route, ids |-> ids, pc |-> "committed", fault |-> "none",
     raised |-> FALSE, returned |-> None, code |-> 0, status |-> "",
     task_id |-> [text |-> "", ref |-> 0]]

\* task_func(*args), i.e. process_event.delay(id) or
\* process_events_batch.delay(ids): the queued task, or the exception of
\* the queue backend
Delay(fault) ==
    IF fault = "none"
    THEN [raised |-> FALSE, id |-> FirstFree]
    ELSE [raised |-> TRUE, exc |-> fault]

\* _dispatch_task_safely: str(task.id), or None for any exception
DispatchTaskSafely_Unguarded(call) ==
    [raised |-> call.raised, value |-> IF call.raised THEN None ELSE Some(call.id)]
DispatchTaskSafely(call) ==
    [raised |-> FALSE, value |-> IF call.raised THEN None ELSE Some(call.id)]

\* status_label = "enqueued" if task_id else "stored"
DispatchLabel_AlwaysEnqueued(task_id) == "enqueued"
DispatchLabel(task_id) == IF task_id # None THEN "enqueued" ELSE "stored"

\* task_id or "n/a"
TaskIdOrNA(task_id) ==
    IF task_id # None
    THEN [text |-> "id", ref |-> The(task_id)]
    ELSE [text |-> "n/a", ref |-> 0]

\* db.commit() of the rows the request created
CommitCreated_FlushOnly(rows) == store
CommitCreated_Overwrite(rows) == rows
CommitCreated(rows) == store \o rows

\* the response of a request whose dispatch returned d; an exception out
\* of the dispatch would reach "except Exception" (rollback, HTTP 500)
Respond(req, fault, d) ==
    IF d.raised
    THEN [req EXCEPT !.pc = "done", !.fault = fault, !.raised = TRUE, !.code = 500]
    ELSE [req EXCEPT !.pc = "done", !.fault = fault, !.returned = d.value,
                     !.code = 202,
                     !.status = DispatchLabel(d.value),
                     !.task_id = TaskIdOrNA(d.value)]

\* ingest_event up to "await db.commit()"
IngestEvent(user, payload, properties) ==
    /\ CountByUser(store, user) < MaxEvents
    /\ Len(requests) < MaxRequests
    /\ store' = CommitCreated(
                  <<NewEvent(user, "page_view", "engagement", payload, properties)>>)
    /\ requests' = Append(requests, NewRequest("single", <<Len(store) + 1>>))
    /\ UNCHANGED <<tasks, clock, gatewayOps>>

\* ingest_events_batch up to "await db.commit()": one row per event of the
\* batch, one commit
IngestEventsBatch(user, payloads, properties) ==
    /\ Len(payloads) >= 1
    /\ CountByUser(store, user) + Len(payloads) <= MaxEvents
    /\ Len(requests) < MaxRequests
    /\ store' = CommitCreated(
                  [i \in 1..Len(payloads) |->
                     NewEvent(user, "page_view", "engagement", payloads[i], properties)])
    /\ requests' = Append(requests,
                      NewRequest("batch", [i \in 1..Len(payloads) |-> Len(store) + i]))
    /\ UNCHANGED <<tasks, clock, gatewayOps>>

\* the store raises in create or in commit: "except Exception" rolls back
\* and answers HTTP 500; nothing is dispatched
IngestFails(route) ==
    /\ Len(requests) < MaxRequests
    /\ requests' = Append(requests,
                      [NewRequest(route, <<>>) EXCEPT !.pc = "done", !.code = 500])
    /\ UNCHANGED <<store, tasks, clock, gatewayOps>>

\* POST /events/ of app/api/events.py: event_service.create is called with
\* keywords it does not take (ip_address, user_agent) and raises TypeError
\* before a row is added; the dispatch line is not reached
CreateEvent ==
    /\ Len(requests) < MaxRequests
    /\ requests' = Append(requests,
                      [NewRequest("legacy", <<>>) EXCEPT !.pc = "done", !.code = 500])
    /\ UNCHANGED <<store, tasks, clock, gatewayOps>>

\* the queue after task_func(*args): the task is in it unless the call
\* raised
Enqueued_DespiteFault(call, req) ==
    IF HasFree
    THEN [tasks EXCEPT ![FirstFree] = NewTask(req.route, req.ids)]
    ELSE tasks
Enqueued(call, req) ==
    IF call.raised
    THEN tasks
    ELSE [tasks EXCEPT ![call.id] = NewTask(req.route, req.ids)]

\* the rest of ingest_event and of ingest_events_batch: dispatch, response
IngestDispatch(r, fault) ==
    /\ requests[r].pc = "committed"
    /\ fault = "none" => HasFree
    /\ LET call == Delay(fault)
           d == DispatchTaskSafely(call)
       IN /\ tasks' = Enqueued(call, requests[r])
          /\ requests' = [requests EXCEPT ![r] = Respond(@, fault, d)]
    /\ UNCHANGED <<store, clock, gatewayOps>>

\* the body get_unprocessed_count returns to user over the store st
StatusBody(st, user) ==
    [unprocessed_count |-> CountUnprocessed(st),
     total_count |-> CountByUser(st, user),
     user_id |-> user]

\* GET /v1/events/status/unprocessed by user: the two counts over the
\* committed rows, answered 200
GetUnprocessedCount(user) ==
    /\ Len(requests) < MaxRequests
    /\ requests' = Append(requests,
                      [route |-> "status", ids |-> <<>>, pc |-> "done",
                       code |-> 200, status |-> "", body |-> StatusBody(store, user)])
    /\ UNCHANGED <<store, tasks, clock, gatewayOps>>

\* the response reaches the client and the request ends
SendResponse(r) ==
    /\ requests[r].pc = "done"
    /\ requests' = [i \in 1..(Len(requests) - 1) |->
                      IF i < r THEN requests[i] ELSE requests[i + 1]]
    /\ UNCHANGED <<store, tasks, clock, gatewayOps>>

\* A further delivery of process_event(id): at-least-once redelivery by the
\* broker (task_acks_late) or a direct process_event.delay(id)
Deliver(id) ==
    /\ HasFree
    /\ tasks' = [tasks EXCEPT ![FirstFree] = NewTask("single", <<id>>)]
    /\ UNCHANGED <<store, clock, gatewayOps, requests>>

(***************************************************************************)
(* process_event.  An execution takes two steps, one per store access:     *)
(* the fetch and the commit.  An access that raises changes nothing in the *)
(* store, so the "except Exception" handler (rollback, error record in a   *)
(* session of its own, retry or give up) is part of the step that raises.  *)
(***************************************************************************)
Return(tk, result) ==
    [tk EXCEPT !.pc = "done", !.result = Some(result), !.snap = None]

\* "if self.request.retries < settings.EVENT_MAX_RETRIES"
ShouldRetry_OffByOne(retries) == retries < EVENT_MAX_RETRIES - 1
ShouldRetry_OneTooMany(retries) == retries <= EVENT_MAX_RETRIES
ShouldRetry(retries) == retries < EVENT_MAX_RETRIES

\* "retry_in = 2 ** self.request.retries"
RetryCountdown_Default(retries) == EVENT_RETRY_DELAY
RetryCountdown(retries) == Pow2(retries)

\* self.retry(exc=e, countdown=c) of a task declared with
\* max_retries=EVENT_MAX_RETRIES: the task is queued again with one more
\* retry, or, when the retries are used up, exc is raised out of the task
CeleryRetry_KeepsSession(tk, c) ==
    IF tk.retries + 1 > EVENT_MAX_RETRIES
    THEN [tk EXCEPT !.pc = "raised", !.snap = None]
    ELSE [tk EXCEPT !.pc = IF tk.snap = None THEN "queued" ELSE "fetched",
                    !.retries = @ + 1, !.delays = Append(@, c)]
CeleryRetry_Unbounded(tk, c) ==
    [tk EXCEPT !.pc = "queued", !.retries = Min(@ + 1, EVENT_MAX_RETRIES - 1),
               !.delays = Append(@, c), !.snap = None]
CeleryRetry(tk, c) ==
    IF tk.retries + 1 > EVENT_MAX_RETRIES
    THEN [tk EXCEPT !.pc = "raised", !.snap = None]
    ELSE [tk EXCEPT !.pc = "queued", !.retries = @ + 1,
                    !.delays = Append(@, c), !.snap = None]

FailedResult == [status |-> "failed", retries_exhausted |-> TRUE]

\* the end of the handler: retry with backoff, or give up
RetryOrGiveUp(tk) ==
    IF ShouldRetry(tk.retries)
    THEN CeleryRetry(tk, RetryCountdown(tk.retries))
    ELSE Return(tk, FailedResult)

\* the guard "if event.processed" of the idempotency skip
AlreadyProcessed_NoGuard(row) == FALSE
AlreadyProcessed(row) == row.processed

\* what the task returns when the fetch finds no row
NotFoundResult == [status |-> "error", message |-> "Event not found"]

SkippedResult == [status |-> "skipped", message |-> "Event already processed"]

\* the task tk of event id after a fetch that did not raise: the two early
\* returns, or the row loaded into the session
Fetched_RetryMissing(tk, id) ==
    IF ~Exists(id) THEN CeleryRetry(tk, EVENT_RETRY_DELAY)
    ELSE IF AlreadyProcessed(store[id]) THEN Return(tk, SkippedResult)
    ELSE [tk EXCEPT !.pc = "fetched", !.snap = Some(store[id])]
Fetched(tk, id) ==
    IF ~Exists(id) THEN Return(tk, NotFoundResult)
    ELSE IF AlreadyProcessed(store[id]) THEN Return(tk, SkippedResult)
    ELSE [tk EXCEPT !.pc = "fetched", !.snap = Some(store[id])]

\* step 1: fetch_event_with_user and the two early returns
PE_Fetch(t) ==
    /\ tasks[t].kind = "single" /\ tasks[t].pc = "queued"
    /\ tasks' = [tasks EXCEPT ![t] =
                   Fetched([@ EXCEPT !.execs = @ + 1], tasks[t].ids[1])]
    /\ UNCHANGED <<store, clock, gatewayOps, requests>>

MissingRequired(row) == row.event_name = "" \/ row.event_type = ""

SuccessObj(row, payload, now) ==
    [row EXCEPT !.properties = Some(NormalizeEventPayload(payload, now)),
                !.processing_error = None,
                !.processed = TRUE,
                !.processed_at = Some(now)]

\* steps 2-6 on the loaded object: the object as mutated, and the status
\* the attempt returns if its commit succeeds; "exception" when step 4
\* raises, which leaves the attempt to the handler
Processed_NoValidation(row, now) ==
    [status |-> "success", obj |-> SuccessObj(row, row.payload, now)]
Processed(row, now) ==
    LET v == ValidatePayloadShape(row.payload) IN
    IF ~v.ok
    THEN [status |-> "validation_error",
          obj |-> [row EXCEPT !.processing_error =
                     Some(Truncate(Prefixed("Payload validation failed: ", 27, v.error)))]]
    ELSE IF MissingRequired(row)
    THEN [status |-> "validation_error",
          obj |-> [row EXCEPT !.processing_error =
                     Some(Truncate(Msg("Missing required fields: event_name and/or event_type", 53)))]]
    ELSE IF NormalizeRaises(v.value)
    THEN [status |-> "exception", obj |-> row]
    ELSE [status |-> "success", obj |-> SuccessObj(row, v.value, now)]

\* the error record of the handler: error_session fetches the row and
\* commits error_msg[:255]; recorded = FALSE when that raises as well
RecordError(id, e, recorded) ==
    IF recorded /\ Exists(id)
    THEN PersistEvent(id, store[id],
           [store[id] EXCEPT !.processing_error =
                               Some(Truncate(Prefixed("Processing error: ", 18, e)))])
    ELSE store

\* steps 2-7 with a store that answers: validate, normalize, mark,
\* persist_event_to_db, return; or, when normalize raises, the handler
\* ("except Exception": error record, then retry or give up)
PE_Process(t) ==
    /\ tasks[t].kind = "single" /\ tasks[t].pc = "fetched"
    /\ LET id == tasks[t].ids[1]
           row == The(tasks[t].snap)
           p == Processed(row, clock)
       IN IF p.status = "exception"
          THEN /\ store' = RecordError(id, OverflowMsg, TRUE)
               /\ clock' = clock
               /\ tasks' = [tasks EXCEPT ![t] = RetryOrGiveUp(@)]
          ELSE /\ store' = PersistEvent(id, row, p.obj)
               /\ clock' = IF p.status = "success" THEN clock + 1 ELSE clock
               /\ tasks' = [tasks EXCEPT ![t] = Return(@, [status |-> p.status])]
    /\ UNCHANGED <<gatewayOps, requests>>

\* the fetch raises (store unreachable)
PE_FetchFails(t, e, recorded) ==
    /\ tasks[t].kind = "single" /\ tasks[t].pc = "queued"
    /\ store' = RecordError(tasks[t].ids[1], e, recorded)
    /\ tasks' = [tasks EXCEPT ![t] =
                   RetryOrGiveUp([@ EXCEPT !.execs = @ + 1, !.faults = @ + 1])]
    /\ UNCHANGED <<clock, gatewayOps, requests>>

\* persist_event_to_db raises: nothing of the attempt is committed
PE_CommitFails_Escalates(t, e, recorded) ==
    /\ tasks[t].kind = "single" /\ tasks[t].pc = "fetched"
    /\ store' = RecordError(tasks[t].ids[1], e, recorded)
    /\ tasks' = [tasks EXCEPT ![t] =
                   IF recorded THEN RetryOrGiveUp([@ EXCEPT !.faults = @ + 1])
                   ELSE [@ EXCEPT !.faults = @ + 1, !.pc = "raised", !.snap = None]]
    /\ UNCHANGED <<clock, gatewayOps, requests>>
PE_CommitFails_ReportsValidation(t, e, recorded) ==
    /\ tasks[t].kind = "single" /\ tasks[t].pc = "fetched"
    /\ store' = RecordError(tasks[t].ids[1], e, recorded)
    /\ tasks' = [tasks EXCEPT ![t] =
                   IF Processed(The(@.snap), clock).status = "validation_error"
                   THEN Return([@ EXCEPT !.faults = @ + 1],
                               [status |-> "validation_error"])
                   ELSE RetryOrGiveUp([@ EXCEPT !.faults = @ + 1])]
    /\ UNCHANGED <<clock, gatewayOps, requests>>
PE_CommitFails(t, e, recorded) ==
    /\ tasks[t].kind = "single" /\ tasks[t].pc = "fetched"
    /\ store' = RecordError(tasks[t].ids[1], e, recorded)
    /\ tasks' = [tasks EXCEPT ![t] = RetryOrGiveUp([@ EXCEPT !.faults = @ + 1])]
    /\ UNCHANGED <<clock, gatewayOps, requests>>

(***************************************************************************)
(* process_events_batch.  One session for the whole batch: a step per id   *)
(* of the list (fetch, validate, normalize, mark, all in the session),     *)
(* then one commit.  snap holds the session: the objects loaded so far as  *)
(* they were loaded (loaded) and as the loop has mutated them (objs), the  *)
(* per-id results and the two counters.                                    *)
(***************************************************************************)
NewSession ==
    [pos |-> 1, loaded |-> <<>>, objs |-> <<>>, results |-> <<>>,
     processed_count |-> 0, failed_count |-> 0]

\* the task at its first step: the session is opened, the counters are zero
Begun(tk) ==
    IF tk.pc = "queued"
    THEN [tk EXCEPT !.pc = "looping", !.execs = @ + 1, !.snap = Some(NewSession)]
    ELSE tk

\* the session after results.append(...) and "continue" for one id
Noted_Prepend(s, id, status, processed, failed) ==
    [s EXCEPT !.pos = @ + 1,
              !.results = <<[event_id |-> id, status |-> status]>> \o @,
              !.processed_count = @ + processed,
              !.failed_count = @ + failed]
Noted(s, id, status, processed, failed) ==
    [s EXCEPT !.pos = @ + 1,
              !.results = Append(@, [event_id |-> id, status |-> status]),
              !.processed_count = @ + processed,
              !.failed_count = @ + failed]

\* "if not event": the id is noted as not_found and the loop goes on
SkipMissing_Abort(s, id) ==
    [Noted(s, id, "not_found", 0, 0) EXCEPT !.pos = MaxBatchLen + 1]
SkipMissing(s, id) == Noted(s, id, "not_found", 0, 0)

\* the function f with f[id] = x
With(f, id, x) == [i \in DOMAIN f \cup {id} |-> IF i = id THEN x ELSE f[i]]

\* steps 2-4 of the loop body on the object of one id
BatchProcessed(obj, now) ==
    LET v == ValidatePayloadShape(obj.payload) IN
    IF ~v.ok
    THEN [status |-> "validation_error",
          obj |-> [obj EXCEPT !.processing_error =
                     Some(Truncate(Prefixed("Payload validation: ", 20, v.error)))]]
    ELSE IF MissingRequired(obj)
    THEN [status |-> "validation_error",
          obj |-> [obj EXCEPT !.processing_error =
                     Some(Truncate(Msg("Missing event_name or event_type", 32)))]]
    ELSE IF NormalizeRaises(v.value)
    THEN [status |-> "error", obj |-> obj]
    ELSE [status |-> "processed", obj |-> SuccessObj(obj, v.value, now)]

\* the loop body for one id whose fetch does not raise.  The session
\* returns the object it already holds for an id it has loaded (identity
\* map), with the attributes the loop has set on it.
Handled_Refetch(s, id, now) ==
    LET in == [s EXCEPT !.loaded = With(@, id, store[id]),
                        !.objs = With(@, id, store[id])]
    IN IF ~Exists(id) THEN SkipMissing(s, id)
       ELSE IF store[id].processed THEN Noted(in, id, "already_processed", 0, 0)
       ELSE LET p == BatchProcessed(store[id], now) IN
            Noted([in EXCEPT !.objs = With(@, id, p.obj)], id, p.status,
                  IF p.status = "processed" THEN 1 ELSE 0,
                  IF p.status = "processed" THEN 0 ELSE 1)
Handled(s, id, now) ==
    LET known == id \in DOMAIN s.objs
        obj == IF known THEN s.objs[id] ELSE store[id]
        in == [s EXCEPT !.loaded = IF known THEN @ ELSE With(@, id, store[id]),
                        !.objs = IF known THEN @ ELSE With(@, id, store[id])]
    IN IF ~known /\ ~Exists(id) THEN SkipMissing(s, id)
       ELSE IF obj.processed THEN Noted(in, id, "already_processed", 0, 0)
       ELSE LET p == BatchProcessed(obj, now) IN
            Noted([in EXCEPT !.objs = With(@, id, p.obj)], id, p.status,
                  IF p.status = "processed" THEN 1 ELSE 0,
                  IF p.status = "processed" THEN 0 ELSE 1)

InLoop(t) ==
    /\ tasks[t].kind = "batch"
    /\ tasks[t].pc \in {"queued", "looping"}
    /\ The(Begun(tasks[t]).snap).pos <= Len(tasks[t].ids)

AfterLoop(t) ==
    /\ tasks[t].kind = "batch"
    /\ tasks[t].pc \in {"queued", "looping"}
    /\ The(Begun(tasks[t]).snap).pos > Len(tasks[t].ids)

\* one iteration of "for event_id in event_ids"
PB_Step(t) ==
    /\ InLoop(t)
    /\ LET tk == Begun(tasks[t])
           s == The(tk.snap)
           s2 == Handled(s, tk.ids[s.pos], clock)
       IN /\ tasks' = [tasks EXCEPT ![t] = [tk EXCEPT !.snap = Some(s2)]]
          /\ clock' = IF s2.processed_count > s.processed_count
                      THEN clock + 1 ELSE clock
    /\ UNCHANGED <<store, gatewayOps, requests>>

\* the fetch of one id raises: "except Exception" of the loop body
PB_StepFails_Raises(t, e) ==
    /\ InLoop(t)
    /\ tasks' = [tasks EXCEPT ![t] =
                   [Begun(@) EXCEPT !.faults = @ + 1, !.pc = "raised", !.snap = None]]
    /\ UNCHANGED <<store, clock, gatewayOps, requests>>
PB_StepFails(t, e) ==
    /\ InLoop(t)
    /\ LET tk == Begun(tasks[t])
           s == The(tk.snap)
       IN tasks' = [tasks EXCEPT ![t] =
                      [tk EXCEPT !.faults = @ + 1,
                                 !.snap = Some(Noted(s, tk.ids[s.pos], "error", 0, 1))]]
    /\ UNCHANGED <<store, clock, gatewayOps, requests>>

\* "success" if failed_count == 0 else "partial"
BatchStatus(s, total) == IF s.failed_count = 0 THEN "success" ELSE "partial"

BatchResult(status, s, total) ==
    [status |-> status, total_events |-> total,
     processed |-> s.processed_count, failed |-> s.failed_count,
     results |-> s.results]

\* what the task returns when persist_event_to_db raises
CommitFailedResult_Zeroed(s, total) ==
    [BatchResult("failed", s, total) EXCEPT !.processed = 0]
CommitFailedResult(s, total) == BatchResult("failed", s, total)

\* session.flush(); session.commit() of all the objects of the session
PersistAll(s) ==
    [id \in DOMAIN store |->
       IF id \in DOMAIN s.objs
       THEN Flush(s.loaded[id], s.objs[id], store[id])
       ELSE store[id]]

\* persist_event_to_db(session, None) succeeds; the summary is returned
PB_Commit(t) ==
    /\ AfterLoop(t)
    /\ LET tk == Begun(tasks[t])
           s == The(tk.snap)
           total == Len(tk.ids)
       IN /\ store' = PersistAll(s)
          /\ tasks' = [tasks EXCEPT ![t] =
                         Return(tk, BatchResult(BatchStatus(s, total), s, total))]
    /\ UNCHANGED <<clock, gatewayOps, requests>>

\* persist_event_to_db(session, None) raises: rollback, "failed" summary
PB_CommitFails(t, e) ==
    /\ AfterLoop(t)
    /\ LET tk == Begun(tasks[t])
           s == The(tk.snap)
       IN tasks' = [tasks EXCEPT ![t] =
                      Return([tk EXCEPT !.faults = @ + 1],
                             CommitFailedResult(s, Len(tk.ids)))]
    /\ UNCHANGED <<store, clock, gatewayOps, requests>>

(***************************************************************************)
(* Gateway operations of EventService, called directly.                    *)
(***************************************************************************)
\* the call that was made, and what it returned (found: the Event, or None)
Called(op, id, arg, found) ==
    [calls |-> gatewayOps.calls + 1,
     last |-> Some([op |-> op, id |-> id, arg |-> arg, found |-> found])]

\* event.processed = True; event.processed_at = processed_at or utcnow()
MarkedProcessed(row, processed_at, now) ==
    [row EXCEPT !.processed = TRUE,
                !.processed_at = IF processed_at # None THEN processed_at
                                 ELSE Some(now)]

\* EventService.mark_processed(db, event_id, processed_at)
MarkProcessed(id, processed_at) ==
    /\ gatewayOps.calls < MaxGatewayOps
    /\ gatewayOps' = Called("mark_processed", id, processed_at, Exists(id))
    /\ clock' = IF Exists(id) /\ processed_at = None THEN clock + 1 ELSE clock
    /\ store' = IF Exists(id)
                THEN [store EXCEPT ![id] = MarkedProcessed(@, processed_at, clock)]
                ELSE store
    /\ UNCHANGED <<tasks, requests>>

\* event.processing_error = error[:255]
ErrorUpdated_Untruncated(row, error) == [row EXCEPT !.processing_error = Some(error)]
ErrorUpdated_Reopens(row, error) ==
    [row EXCEPT !.processing_error = Some(Truncate(error)), !.processed = FALSE]
ErrorUpdated(row, error) == [row EXCEPT !.processing_error = Some(Truncate(error))]

\* EventService.update_error(db, event_id, error)
UpdateError(id, error) ==
    /\ gatewayOps.calls < MaxGatewayOps
    /\ gatewayOps' = Called("update_error", id, error, Exists(id))
    /\ store' = IF Exists(id)
                THEN [store EXCEPT ![id] = ErrorUpdated(@, error)]
                ELSE store
    /\ UNCHANGED <<tasks, clock, requests>>

\* the infrastructure failures raised so far
Failures == SumSeq([t \in TaskIds |-> tasks[t].faults])

(***************************************************************************)
(* Spec: the pipeline with concurrent deliveries; the store fails at most  *)
(* MaxFailures times.  A request is dispatched right after its commit,     *)
(* and answered at once (Deliver adds a task at any other moment).         *)
(***************************************************************************)
\* no request is in flight
Settled == requests = <<>>

Next ==
    \/ \E u \in Users, p \in Payloads, c \in ClientProperties :
         Settled /\ IngestEvent(u, p, c)
    \/ \E r \in RequestIds, f \in BrokerOutcomes : IngestDispatch(r, f)
    \/ \E r \in RequestIds : SendResponse(r)
    \/ \E id \in EventIds : Settled /\ Deliver(id)
    \/ \E t \in TaskIds : Settled /\ PE_Fetch(t)
    \/ \E t \in TaskIds : Settled /\ PE_Process(t)
    \/ \E t \in TaskIds, e \in Exceptions, r \in BOOLEAN :
         Settled /\ Failures < MaxFailures /\ PE_FetchFails(t, e, r)
    \/ \E t \in TaskIds, e \in Exceptions, r \in BOOLEAN :
         Settled /\ Failures < MaxFailures /\ PE_CommitFails(t, e, r)

Spec == Init /\ [][Next]_vars

(***************************************************************************)
(* SpecRetry: one delivery at a time (the queue's normal semantics), and   *)
(* a store that may fail at every access.                                  *)
(***************************************************************************)
Live(t) == tasks[t].pc \in {"queued", "fetched"}
NoneLive == \A t \in TaskIds : ~Live(t)

NextRetry ==
    \/ \E u \in Users, p \in Payloads, c \in ClientProperties :
         Settled /\ IngestEvent(u, p, c)
    \/ \E r \in RequestIds, f \in BrokerOutcomes :
         (f = "none" => NoneLive) /\ IngestDispatch(r, f)
    \/ \E r \in RequestIds : SendResponse(r)
    \/ \E id \in EventIds : Settled /\ NoneLive /\ Deliver(id)
    \/ \E t \in TaskIds : Settled /\ PE_Fetch(t)
    \/ \E t \in TaskIds : Settled /\ PE_Process(t)
    \/ \E t \in TaskIds, e \in Exceptions, r \in BOOLEAN :
         Settled /\ PE_FetchFails(t, e, r)
    \/ \E t \in TaskIds, e \in Exceptions, r \in BOOLEAN :
         Settled /\ PE_CommitFails(t, e, r)

SpecRetry == Init /\ [][NextRetry]_vars

(***************************************************************************)
(* SpecIngest: the ingestion API with its requests interleaved with each   *)
(* other and with the workers; the queue backend may fail at any dispatch  *)
(* and the store at any ingestion.  Every task comes from a dispatch.      *)
(***************************************************************************)
BatchInputs == UNION {[1..n -> Payloads] : n \in 1..MaxEvents}

NextIngest ==
    \/ \E u \in Users, p \in Payloads, c \in ClientProperties :
         IngestEvent(u, p, c)
    \/ \E u \in Users, ps \in BatchInputs, c \in ClientProperties :
         IngestEventsBatch(u, ps, c)
    \/ \E route \in {"single", "batch"} : IngestFails(route)
    \/ CreateEvent
    \/ \E r \in RequestIds, f \in BrokerOutcomes \cup BrokerFaults :
         IngestDispatch(r, f)
    \/ \E r \in RequestIds : SendResponse(r)
    \/ \E t \in TaskIds : PE_Fetch(t)
    \/ \E t \in TaskIds : PE_Process(t)
    \/ \E t \in TaskIds : PB_Step(t)
    \/ \E t \in TaskIds : PB_Commit(t)

SpecIngest == Init /\ [][NextIngest]_vars

(***************************************************************************)
(* SpecCounts: two owners submit events and read the status endpoint       *)
(* while process_event runs; up to MaxEvents events per owner.             *)
(***************************************************************************)
Owners == {"u1", "u2"}

NextCounts ==
    \/ \E u \in Owners : IngestEvent(u, JDict(<<>>), None)
    \/ \E r \in RequestIds : IngestDispatch(r, "none")
    \/ \E u \in Owners : GetUnprocessedCount(u)
    \/ \E r \in RequestIds : SendResponse(r)
    \/ \E t \in TaskIds : PE_Fetch(t)
    \/ \E t \in TaskIds : PE_Process(t)

SpecCounts == Init /\ [][NextCounts]_vars

(***************************************************************************)
(* SpecBatch: one execution of process_events_batch over a store that      *)
(* holds BatchRows rows, for every list of up to MaxBatchLen ids (ids      *)
(* without a row and repeated ids included).  The fetches fail at most     *)
(* MaxFailures times; the commit may fail.                                 *)
(***************************************************************************)
\* the rows a batch meets: as ingestion created them, with a payload that
\* passes or fails validation, or as an earlier processing left them
StoredRows ==
    LET valid == NewEvent("u1", "page_view", "engagement", PageView, None)
        invalid == NewEvent("u1", "page_view", "engagement", TooDeep, None)
    IN {valid, invalid, SuccessObj(valid, PageView, 1)}

BatchIds == UNION {[1..n -> 1..(BatchRows + 1)] : n \in 1..MaxBatchLen}

InitBatch ==
    /\ store \in [1..BatchRows -> StoredRows]
    /\ \E ids \in BatchIds :
         tasks = [t \in TaskIds |-> IF t = 1 THEN NewTask("batch", ids) ELSE NoTask]
    /\ clock = 2
    /\ gatewayOps = [calls |-> 0, last |-> None]
    /\ requests = <<>>

NextBatch ==
    \/ \E t \in TaskIds : PB_Step(t)
    \/ \E t \in TaskIds, e \in Exceptions :
         Failures < MaxFailures /\ PB_StepFails(t, e)
    \/ \E t \in TaskIds : PB_Commit(t)
    \/ \E t \in TaskIds, e \in Exceptions : PB_CommitFails(t, e)

SpecBatch == InitBatch /\ [][NextBatch]_vars

(***************************************************************************)
(* SpecGateway: direct calls of the gateway operations mark_processed and  *)
(* update_error over a store that holds MaxEvents rows.                    *)
(***************************************************************************)
\* a row on which an earlier attempt recorded a validation error
ErroredRow ==
    Processed(NewEvent("u1", "page_view", "engagement", TooDeep, None), 1).obj

GatewayRows == StoredRows \cup {ErroredRow}

\* the ids the callers name: those of the rows, and one without a row
CalledIds == 1..(MaxEvents + 1)

\* processed_at as the caller gives it: absent, or a time
GivenTimes == {None, Some(7)}

\* the error texts the callers give: shorter and longer than the column
GivenErrors == {Msg("timeout", 7)} \cup Exceptions

InitGateway ==
    /\ store \in [1..MaxEvents -> GatewayRows]
    /\ tasks = [t \in TaskIds |-> NoTask]
    /\ clock = 2
    /\ gatewayOps = [calls |-> 0, last |-> None]
    /\ requests = <<>>

NextGateway ==
    \/ \E id \in CalledIds, at \in GivenTimes : MarkProcessed(id, at)
    \/ \E id \in CalledIds, e \in GivenErrors : UpdateError(id, e)

SpecGateway == InitGateway /\ [][NextGateway]_vars

(***************************************************************************)
(* SpecErrors: every way an error gets recorded on a row.  One worker      *)
(* task, single or batch, over a store that holds MaxEvents rows, with     *)
(* its validation and failure paths, and direct calls of update_error.     *)
(***************************************************************************)
ErrorTasks ==
    {NewTask("single", <<id>>) : id \in CalledIds}
      \cup {NewTask("batch", ids) : ids \in [1..MaxEvents -> CalledIds]}

InitErrors ==
    /\ store \in [1..MaxEvents -> GatewayRows]
    /\ \E tk \in ErrorTasks :
         tasks = [t \in TaskIds |-> IF t = 1 THEN tk ELSE NoTask]
    /\ clock = 2
    /\ gatewayOps = [calls |-> 0, last |-> None]
    /\ requests = <<>>

NextErrors ==
    \/ \E id \in CalledIds, e \in GivenErrors : UpdateError(id, e)
    \/ \E t \in TaskIds : PE_Fetch(t)
    \/ \E t \in TaskIds : PE_Process(t)
    \/ \E t \in TaskIds, e \in Exceptions, r \in BOOLEAN :
         Failures < MaxFailures /\ PE_FetchFails(t, e, r)
    \/ \E t \in TaskIds, e \in Exceptions, r \in BOOLEAN :
         Failures < MaxFailures /\ PE_CommitFails(t, e, r)
    \/ \E t \in TaskIds : PB_Step(t)
    \/ \E t \in TaskIds, e \in Exceptions :
         Failures < MaxFailures /\ PB_StepFails(t, e)
    \/ \E t \in TaskIds : PB_Commit(t)
    \/ \E t \in TaskIds, e \in Exceptions : PB_CommitFails(t, e)

SpecErrors == InitErrors /\ [][NextErrors]_vars

(***************************************************************************)
(* SpecFrame: everything that writes to a stored row.  One worker task,    *)
(* single or batch, over a store that holds BatchRows rows, with the       *)
(* failures of its store accesses, next to direct calls of the gateway     *)
(* operations mark_processed and update_error.                             *)
(***************************************************************************)
FrameIds == 1..(BatchRows + 1)

FrameTasks ==
    {NewTask("single", <<id>>) : id \in FrameIds}
      \cup {NewTask("batch", ids) : ids \in [1..BatchRows -> FrameIds]}

InitFrame ==
    /\ store \in [1..BatchRows -> StoredRows]
    /\ \E tk \in FrameTasks :
         tasks = [t \in TaskIds |-> IF t = 1 THEN tk ELSE NoTask]
    /\ clock = 2
    /\ gatewayOps = [calls |-> 0, last |-> None]
    /\ requests = <<>>

NextFrame ==
    \/ \E id \in FrameIds, at \in GivenTimes :
         gatewayOps.calls < 1 /\ MarkProcessed(id, at)
    \/ \E id \in FrameIds, e \in GivenErrors :
         gatewayOps.calls < 1 /\ UpdateError(id, e)
    \/ \E t \in TaskIds : PE_Fetch(t)
    \/ \E t \in TaskIds : PE_Process(t)
    \/ \E t \in TaskIds, e \in Exceptions, r \in BOOLEAN :
         Failures < MaxFailures /\ PE_FetchFails(t, e, r)
    \/ \E t \in TaskIds, e \in Exceptions, r \in BOOLEAN :
         Failures < MaxFailures /\ PE_CommitFails(t, e, r)
    \/ \E t \in TaskIds : PB_Step(t)
    \/ \E t \in TaskIds, e \in Exceptions :
         Failures < MaxFailures /\ PB_StepFails(t, e)
    \/ \E t \in TaskIds : PB_Commit(t)
    \/ \E t \in TaskIds, e \in Exceptions : PB_CommitFails(t, e)

SpecFrame == InitFrame /\ [][NextFrame]_vars

(***************************************************************************)
(* SpecValidate: validate_payload_shape applied by process_event to a      *)
(* stored payload of every nesting depth up to MaxNest.                    *)
(***************************************************************************)
InitValidate ==
    /\ \E p \in DepthPayloads :
         store = <<NewEvent("u1", "page_view", "engagement", p, None)>>
    /\ tasks = [t \in TaskIds |-> IF t = 1 THEN NewTask("single", <<1>>) ELSE NoTask]
    /\ clock = 1
    /\ gatewayOps = [calls |-> 0, last |-> None]
    /\ requests = <<>>

NextValidate ==
    \/ \E t \in TaskIds : PE_Fetch(t)
    \/ \E t \in TaskIds : PE_Process(t)

SpecValidate == InitValidate /\ [][NextValidate]_vars

(***************************************************************************)
(* SpecShape: validate_payload_shape applied by process_event to payloads  *)
(* on every branch of the function: null, not a mapping, a leaf json.dumps *)
(* refuses, a serialized size at, one below and one above the limit, every *)
(* nesting depth up to MaxNest, and too large and too deep at once.        *)
(***************************************************************************)
\* the mapping {"blob": <string>} whose serialization has len characters
Sized(len) == JDict(<<Item("blob", JText(len - 12))>>)

ShapePayloads ==
    DepthPayloads
      \cup {JNull, JDict(<<>>), PageView,
            JList(<<PageView>>), JStr(<<"{", "}">>), JNum(7), JFloat(7), JBool(TRUE),
            JDict(<<Item("page", JStr(<<"/">>)), Item("when", JObj)>>),
            JDict(<<Item("data", JList(<<JNum(1), JObj>>))>>),
            JDict(<<Item("blob", JText(MAX_PAYLOAD_SIZE)),
                    Item("data", Chain(MaxNest, JNum(1), FALSE))>>)}
      \cup {Sized(MAX_PAYLOAD_SIZE + d) : d \in {-1, 0, 1}}

InitShape ==
    /\ \E p \in ShapePayloads :
         store = <<NewEvent("u1", "page_view", "engagement", p, None)>>
    /\ tasks = [t \in TaskIds |-> IF t = 1 THEN NewTask("single", <<1>>) ELSE NoTask]
    /\ clock = 1
    /\ gatewayOps = [calls |-> 0, last |-> None]
    /\ requests = <<>>

NextShape ==
    \/ \E t \in TaskIds : PE_Fetch(t)
    \/ \E t \in TaskIds : PE_Process(t)

SpecShape == InitShape /\ [][NextShape]_vars

(***************************************************************************)
(* SpecNormalize: normalize_event_payload applied by process_event to      *)
(* valid payloads: each known key absent or present with a value that      *)
(* converts or does not, next to keys normalize does not know.             *)
(***************************************************************************)
\* the key absent, or present with one of the values
Opt(key, values) == {<<>>} \cup {<<Item(key, x)>> : x \in values}

NormalizePayloads ==
    {JDict(page \o referrer \o duration \o scroll_depth \o other) :
       page \in Opt("page", {JStr(<<" ", "/", "h", "o", "m", "e", " ">>), JNum(7)}),
       referrer \in Opt("referrer", {JStr(<<"a", ".", "b">>), JNull}),
       duration \in Opt("duration", {JStr(<<" ", "4", "5">>), JStr(<<"4", "x">>),
                                     JNull, JBig(400)}),
       scroll_depth \in Opt("scroll_depth", {JNum(75), JList(<<>>), JText(5)}),
       other \in Opt("plan", {JStr(<<"p", "r", "o">>)})
                   \cup Opt("original", {JNum(1)})}

InitNormalize ==
    /\ \E p \in NormalizePayloads :
         store = <<NewEvent("u1", "page_view", "engagement", p, None)>>
    /\ tasks = [t \in TaskIds |-> IF t = 1 THEN NewTask("single", <<1>>) ELSE NoTask]
    /\ clock = 1
    /\ gatewayOps = [calls |-> 0, last |-> None]
    /\ requests = <<>>

NextNormalize ==
    \/ \E t \in TaskIds : PE_Fetch(t)
    \/ \E t \in TaskIds : PE_Process(t)

SpecNormalize == InitNormalize /\ [][NextNormalize]_vars

(***************************************************************************)
(* SpecLive: ingestion and process_event with a store that answers and a   *)
(* worker that runs: a request that committed is dispatched and answered,  *)
(* a queued task (a retry after its countdown included) is executed, an    *)
(* execution that has fetched goes on to its commit.                       *)
(***************************************************************************)
Click == JDict(<<Item("page", JStr(<<"/">>)), Item("duration", JNum(12))>>)
\* payloads that pass validate_payload_shape and on which float() raises
HugeDuration == JDict(<<Item("page", JStr(<<"/">>)), Item("duration", JBig(400))>>)
HugeScroll == JDict(<<Item("scroll_depth", JBig(400))>>)

\* valid payloads, and one above the size limit
LivePayloads ==
    {Click, JDict(<<>>), HugeDuration, HugeScroll, Sized(MAX_PAYLOAD_SIZE + 1)}

NextLive ==
    \/ \E u \in Users, p \in LivePayloads, c \in ClientProperties :
         IngestEvent(u, p, c)
    \/ \E r \in RequestIds, f \in BrokerOutcomes : IngestDispatch(r, f)
    \/ \E r \in RequestIds : SendResponse(r)
    \/ \E t \in TaskIds : PE_Fetch(t)
    \/ \E t \in TaskIds : PE_Process(t)

SpecLive ==
    /\ Init /\ [][NextLive]_vars
    /\ WF_vars(\E r \in RequestIds, f \in BrokerOutcomes : IngestDispatch(r, f))
    /\ WF_vars(\E r \in RequestIds : SendResponse(r))
    /\ WF_vars(\E t \in TaskIds : PE_Fetch(t))
    /\ WF_vars(\E t \in TaskIds : PE_Process(t))

(***************************************************************************)
(* Vocabulary of the properties.                                           *)
(***************************************************************************)
Rows == 1..Len(store)
EventOf(t) == tasks[t].ids[1]
Singles == {t \in TaskIds : tasks[t].kind = "single"}
StatusOf(t) == The(tasks[t].result).status

\* this step starts an execution of task t
Started(t) == tasks[t].pc = "queued" /\ tasks'[t].execs = tasks[t].execs + 1
\* a store access of task t raises in this step
Faulted(t) == tasks'[t].faults # tasks[t].faults
\* task t returns a result with this status in this step
Returned(t, status) ==
    /\ tasks[t].pc # "done" /\ tasks'[t].pc = "done"
    /\ The(tasks'[t].result).status = status
\* this step schedules no retry of task t
NoRetry(t) ==
    tasks'[t].retries = tasks[t].retries /\ tasks'[t].delays = tasks[t].delays
Batches == {t \in TaskIds : tasks[t].kind = "batch"}
\* the summary a batch task has returned
Summary(t) == The(tasks[t].result)
\* this step is the commit of batch t, and it succeeds / it raises
Commits(t) == tasks[t].pc # "done" /\ tasks'[t].pc = "done" /\ ~Faulted(t)
CommitRaises(t) == tasks[t].pc # "done" /\ tasks'[t].pc = "done" /\ Faulted(t)
\* position i holds the first occurrence of its id in the list
FirstOccurrence(ids, i) == \A j \in 1..(i - 1) : ids[j] # ids[i]
\* this step is a direct call of the gateway operation op
Calls(op) ==
    /\ gatewayOps'.calls = gatewayOps.calls + 1
    /\ The(gatewayOps'.last).op = op
\* the step leaves every attribute of row id but processing_error
OnlyErrorChanges(id) ==
    store'[id] = [store[id] EXCEPT !.processing_error = store'[id].processing_error]
RECURSIVE Deepest(_, _)
\* the depth of the deepest value in obj, obj itself being at depth d
Deepest(obj, d) ==
    IF obj.t \in {"dict", "list"} /\ Len(obj.v) > 0
    THEN LET child(i) == IF obj.t = "dict" THEN obj.v[i].x ELSE obj.v[i]
             ds == {Deepest(child(i), d + 1) : i \in 1..Len(obj.v)}
         IN CHOOSE m \in ds : \A x \in ds : x <= m
    ELSE d
\* what process_event records when validation fails for depth
TooDeepError ==
    Some(Truncate(Prefixed("Payload validation failed: ", 27,
                           Msg("Payload exceeds max nesting depth (10)", 38))))
\* task t ends in this step with the validation error "too deep"
RejectedTooDeep(t) ==
    /\ Returned(t, "validation_error")
    /\ store'[EventOf(t)].processing_error = TooDeepError
\* the requests that committed their rows and have their response
Answered == {r \in RequestIds : requests[r].pc = "done" /\ requests[r].ids # <<>>}
\* every id of the sequence has a committed row
AllStored(ids) == \A i \in 1..Len(ids) : ids[i] \in Rows
\* the payload or the required fields of the row fail the checks of steps 2-3
Invalid(row) == ~ValidatePayloadShape(row.payload).ok \/ MissingRequired(row)
\* a row the loop body processes: unprocessed, valid payload and fields
Processable(row) == ~row.processed /\ ~Invalid(row)
\* batch task t returns in this step, its commit having succeeded or not
Ends(t) == tasks[t].pc # "done" /\ tasks'[t].pc = "done"
\* the per-id results batch t has collected before this step
ResultsSoFar(t) == The(Begun(tasks[t]).snap).results
\* how many of the results carry the status
CountStatus(results, status) ==
    Cardinality({i \in 1..Len(results) : results[i].status = status})
\* this step is a step of worker task t
Acts(t) == tasks'[t] # tasks[t]
\* the task names the event id
Names(tk, id) == \E i \in 1..Len(tk.ids) : tk.ids[i] = id
\* this step answers a read of the status endpoint
StatusRead ==
    /\ Len(requests') = Len(requests) + 1
    /\ requests'[Len(requests')].route = "status"
\* the body of the read this step answers
ReadBody == requests'[Len(requests')].body
\* the status responses in flight: reads answered before this step
EarlierReads(user) ==
    {r \in RequestIds : requests[r].route = "status" /\ requests[r].body.user_id = user}
\* the rows of the store, the rows of an owner
Pending == {id \in Rows : ~store[id].processed}
OwnedBy(user) == {id \in Rows : store[id].user_id = user}
\* this step is a successful ingestion of one event by user
Ingests(user) ==
    /\ Len(store') = Len(store) + 1
    /\ store'[Len(store')].user_id = user

(***************************************************************************)
(* C1: in every reachable state, for every event record, processed is     *)
(* true iff processed_at is non-null iff properties is non-null.           *)
(* Refuted: EventService.create stores the properties the client sent, so  *)
(* an unprocessed record can carry properties.                             *)
(***************************************************************************)
C1_StatusFieldsEquivalent ==
    \A id \in Rows :
      /\ store[id].processed <=> store[id].processed_at # None
      /\ store[id].processed <=> store[id].properties # None

(***************************************************************************)
(* C2: in every reachable state, duplicate deliveries included, a record   *)
(* with processed = true has processing_error null.                        *)
(* Refuted: the error record of the failure handler writes                 *)
(* processing_error without looking at processed.                          *)
(***************************************************************************)
C2_ProcessedHasNoError ==
    \A id \in Rows : store[id].processed => store[id].processing_error = None

(***************************************************************************)
(* C3: once processed_at of a record is non-null, no step changes it.      *)
(* Refuted: two deliveries that both fetched the unprocessed row both      *)
(* commit their own timestamp.                                             *)
(***************************************************************************)
C3_ProcessedAtSetOnce ==
    [][\A id \in Rows :
         store[id].processed_at # None =>
           store'[id].processed_at = store[id].processed_at]_vars

(***************************************************************************)
(* C4: when an execution of process_event returns success, the committed   *)
(* record has processed = true, properties and processed_at non-null and   *)
(* processing_error null.                                                  *)
(* Refuted: an error recorded by another delivery between the fetch and    *)
(* the commit survives the commit, which writes only the attributes that   *)
(* changed in its own session.                                             *)
(***************************************************************************)
C4_SuccessCommitsCleanRecord ==
    [][\A t \in Singles :
         Returned(t, "success") =>
           LET r == store'[EventOf(t)] IN
             /\ r.processed
             /\ r.properties # None
             /\ r.processed_at # None
             /\ r.processing_error = None]_vars

(***************************************************************************)
(* C5: an execution of process_event that fetches a record with           *)
(* processed = true returns skipped and mutates nothing in the store.      *)
(***************************************************************************)
C5_SkipLeavesStore ==
    [][\A t \in Singles :
         /\ (Started(t) /\ ~Faulted(t)
               /\ EventOf(t) \in Rows /\ store[EventOf(t)].processed)
              => (Returned(t, "skipped") /\ NoRetry(t) /\ store' = store)
         /\ Returned(t, "skipped")
              => (store[EventOf(t)].processed /\ store' = store)]_vars

C5_Witness ==
    \E t \in Singles :
      /\ tasks[t].pc = "done" /\ StatusOf(t) = "skipped"
      /\ store[EventOf(t)].processed

C7_ValidationNeverRetried ==
    [][\A t \in Singles :
         (tasks[t].pc = "fetched" /\ Invalid(The(tasks[t].snap))
            /\ tasks'[t] # tasks[t])
           => /\ Returned(t, "validation_error")
              /\ NoRetry(t)
              /\ ~store'[EventOf(t)].processed]_vars

(***************************************************************************)
(* C7 amended: when the payload validation or the required-field check     *)
(* fails and the error record commits, the execution ends with             *)
(* validation_error, the error is on the record, and no retry is           *)
(* scheduled; when that commit raises, the attempt is an infrastructure    *)
(* failure and follows the retry policy.  In both cases the execution      *)
(* leaves processed false.                                                 *)
(***************************************************************************)
C7_ValidationErrorTerminal ==
    [][\A t \in Singles :
         (tasks[t].pc = "fetched" /\ Invalid(The(tasks[t].snap))
            /\ tasks'[t] # tasks[t])
           => /\ ~store'[EventOf(t)].processed
              /\ IF Faulted(t)
                 THEN \/ tasks'[t].pc = "queued"
                           /\ tasks'[t].retries = tasks[t].retries + 1
                      \/ Returned(t, "failed")
                 ELSE /\ Returned(t, "validation_error")
                      /\ NoRetry(t)
                      /\ store'[EventOf(t)].processing_error # None]_vars

C7_Witness ==
    \E t \in Singles :
      /\ tasks[t].pc = "done" /\ StatusOf(t) = "validation_error"
      /\ store[EventOf(t)].processing_error # None
      /\ ~store[EventOf(t)].processed

(***************************************************************************)
(* C8 as stated: with EVENT_MAX_RETRIES = 3 and a failure in every         *)
(* attempt, the task has been executed exactly 3 times when it returns     *)
(* failed with retries_exhausted.                                          *)
(***************************************************************************)
C8_FailedAfterThreeExecutions ==
    \A t \in Singles :
      (tasks[t].pc = "done" /\ StatusOf(t) = "failed") => tasks[t].execs = 3

(***************************************************************************)
(* C8 amended: with EVENT_MAX_RETRIES = 3 and a failure in every attempt,  *)
(* the task is executed exactly 4 times (the first attempt and 3 retries)  *)
(* before it returns failed with retries_exhausted = true; it returns      *)
(* failed in no other way.                                                 *)
(***************************************************************************)
C8_FailedAfterFourExecutions ==
    \A t \in Singles :
      /\ (tasks[t].pc = "done" /\ StatusOf(t) = "failed")
           => /\ tasks[t].execs = 4
              /\ tasks[t].faults = 4
              /\ The(tasks[t].result).retries_exhausted
      /\ (tasks[t].faults = tasks[t].execs /\ tasks[t].execs > 0)
           => \/ tasks[t].pc = "queued" /\ tasks[t].execs < 4
              \/ tasks[t].pc = "done" /\ StatusOf(t) = "failed"

C8_Witness ==
    \E t \in Singles :
      /\ tasks[t].pc = "done" /\ StatusOf(t) = "failed"
      /\ tasks[t].faults = tasks[t].execs

(***************************************************************************)
(* C9: the n-th retry of a task (n = 0, 1, 2 retries already performed)    *)
(* is scheduled with countdown 2^n: the countdowns asked for are 1, 2, 4   *)
(* in this order, and never another delay such as EVENT_RETRY_DELAY.       *)
(***************************************************************************)
C9_BackoffDelays ==
    \A t \in Singles :
      /\ tasks[t].retries <= 3
      /\ Len(tasks[t].delays) = tasks[t].retries
      /\ \A i \in 1..Len(tasks[t].delays) : tasks[t].delays[i] = <<1, 2, 4>>[i]

C9_Witness == \E t \in Singles : tasks[t].delays = <<1, 2, 4>>

(***************************************************************************)
(* C10: a store failure in process_event never leaves the task as an       *)
(* unhandled exception: while retries remain the step asks for a retry,    *)
(* and with the retries used up it returns failed with retries_exhausted.  *)
(***************************************************************************)
C10_NoUnhandledFault ==
    [][\A t \in Singles :
         /\ tasks'[t].pc # "raised"
         /\ Faulted(t) =>
              IF tasks[t].retries < EVENT_MAX_RETRIES
              THEN /\ tasks'[t].pc = "queued"
                   /\ tasks'[t].retries = tasks[t].retries + 1
                   /\ tasks'[t].result = None
              ELSE /\ Returned(t, "failed")
                   /\ The(tasks'[t].result).retries_exhausted]_vars

C10_Witness ==
    \E t \in Singles :
      /\ tasks[t].faults = EVENT_MAX_RETRIES + 1
      /\ tasks[t].pc = "done"
      /\ tasks[t].retries = EVENT_MAX_RETRIES

(***************************************************************************)
(* C11: dispatch never raises to its caller: when the queue backend fails, *)
(* in whatever way, the dispatch of a single-event or batch task returns   *)
(* None; when the backend takes the task it returns the reference of the   *)
(* task that was queued for the ids of the request.                        *)
(***************************************************************************)
C11_DispatchNeverRaises ==
    \A r \in Answered :
      /\ ~requests[r].raised
      /\ requests[r].fault # "none" <=> requests[r].returned = None
      /\ requests[r].fault = "none" =>
           /\ requests[r].returned # None
           /\ tasks[The(requests[r].returned)].kind = requests[r].route
           /\ tasks[The(requests[r].returned)].ids = requests[r].ids

C11_Witness ==
    \E r \in Answered :
      /\ requests[r].route = "batch"
      /\ requests[r].fault = "EncodeError"
      /\ requests[r].returned = None /\ ~requests[r].raised

(***************************************************************************)
(* C12: every submission whose rows were committed, single or batch, gets  *)
(* a success response; its status is "enqueued" exactly when the dispatch  *)
(* returned a task reference, and "stored" with task id "n/a" exactly when *)
(* the dispatch failed; the rows stay in the store.                        *)
(***************************************************************************)
C12_LabelFollowsDispatch ==
    \A r \in Answered :
      /\ requests[r].code = 202
      /\ requests[r].status \in {"enqueued", "stored"}
      /\ requests[r].status = "enqueued" <=> requests[r].fault = "none"
      /\ requests[r].status = "enqueued" =>
           /\ requests[r].task_id.text = "id"
           /\ requests[r].task_id.ref = The(requests[r].returned)
      /\ requests[r].status = "stored" <=> requests[r].task_id.text = "n/a"
      /\ AllStored(requests[r].ids)

C12_Witness ==
    \E r \in Answered :
      /\ requests[r].route = "single" /\ requests[r].fault = "OperationalError"
      /\ requests[r].code = 202 /\ requests[r].status = "stored"
      /\ requests[r].task_id.text = "n/a"
      /\ AllStored(requests[r].ids)

(***************************************************************************)
(* C13: the rows of a request are committed before its dispatch: in every  *)
(* interleaving, each task of the queue and each answered request names    *)
(* ids that have a row, and a worker that starts a task dispatched by      *)
(* ingestion finds the row.                                                *)
(***************************************************************************)
C13_CommittedBeforeDispatch ==
    [][/\ \A t \in TaskIds : AllStored(tasks'[t].ids)
       /\ \A r \in RequestIds : AllStored(requests[r].ids)
       /\ \A t \in Singles :
            Started(t) => (EventOf(t) \in Rows /\ ~Returned(t, "error"))]_vars

C13_Witness ==
    \E r \in Answered, t \in Singles :
      /\ requests[r].returned = Some(t)
      /\ tasks[t].pc = "done" /\ StatusOf(t) = "success"
      /\ store[EventOf(t)].processed

(***************************************************************************)
(* C14: in process_events_batch each id is handled by itself: when the     *)
(* commit succeeds, the first occurrence of every id whose fetch did not   *)
(* raise gets the result of its own row (not_found, already_processed,     *)
(* validation_error or processed), whatever the other ids are, and the     *)
(* processed rows are committed.  For three ids of which the second has no *)
(* row and the others are distinct, valid and unprocessed, the summary has *)
(* processed = 2, failed = 0 and not_found for the second id, and both     *)
(* rows are committed as processed.                                        *)
(***************************************************************************)
C14_IdsHandledIndependently ==
    [][\A t \in Batches :
         Commits(t) =>
           LET ids == tasks[t].ids
               res == Summary(t)'
           IN /\ Len(res.results) = Len(ids)
              /\ \A i \in 1..Len(ids) :
                   (FirstOccurrence(ids, i) /\ res.results[i].status # "error") =>
                     IF ids[i] \notin Rows
                     THEN res.results[i].status = "not_found"
                     ELSE IF store[ids[i]].processed
                     THEN /\ res.results[i].status = "already_processed"
                          /\ store'[ids[i]] = store[ids[i]]
                     ELSE IF Invalid(store[ids[i]])
                     THEN /\ res.results[i].status = "validation_error"
                          /\ ~store'[ids[i]].processed
                          /\ store'[ids[i]].processing_error # None
                     ELSE /\ res.results[i].status = "processed"
                          /\ store'[ids[i]].processed
                          /\ store'[ids[i]].properties # None
              /\ (/\ Len(ids) = 3 /\ ids[1] # ids[3] /\ ids[2] \notin Rows
                  /\ ids[1] \in Rows /\ ids[3] \in Rows
                  /\ Processable(store[ids[1]]) /\ Processable(store[ids[3]])
                  /\ tasks'[t].faults = 0)
                   => /\ res.processed = 2 /\ res.failed = 0
                      /\ res.results[2] = [event_id |-> ids[2], status |-> "not_found"]
                      /\ store'[ids[1]].processed /\ store'[ids[3]].processed]_vars

C14_Witness ==
    \E t \in Batches :
      /\ tasks[t].pc = "done" /\ Len(tasks[t].ids) = 3
      /\ Summary(t).processed = 2 /\ Summary(t).failed = 0
      /\ Summary(t).results[2].status = "not_found"
      /\ Summary(t).results[1].status = "processed"
      /\ Summary(t).results[3].status = "processed"
      /\ store[tasks[t].ids[1]].processed /\ store[tasks[t].ids[3]].processed
      /\ tasks[t].ids[1] # tasks[t].ids[3]

(***************************************************************************)
(* C15: when the final commit of process_events_batch fails, the summary   *)
(* has status failed and zero events marked processed, and the store is    *)
(* as it was before the batch.                                             *)
(* Refuted: the summary carries the processed count and the per-id         *)
(* "processed" results of the loop, although the rollback undid them.      *)
(***************************************************************************)
C15_CommitFailureReportsNothingProcessed ==
    [][\A t \in Batches :
         CommitRaises(t) =>
           /\ Summary(t)'.status = "failed"
           /\ Summary(t)'.processed = 0
           /\ \A i \in 1..Len(Summary(t)'.results) :
                Summary(t)'.results[i].status # "processed"
           /\ store' = store]_vars

(***************************************************************************)
(* C16: the status of a batch summary is success exactly when every id of  *)
(* the batch was processed, partial exactly when some ids were processed   *)
(* and some failed or were skipped, and failed exactly when the final      *)
(* commit failed.                                                          *)
(* Refuted: with a commit that succeeds the status is success whenever no  *)
(* id failed, so ids that were not found or already processed still give   *)
(* success, and it is partial whenever one id failed, even if no id was    *)
(* processed.                                                              *)
(***************************************************************************)
C16_StatusReflectsProcessed ==
    [][\A t \in Batches :
         (tasks[t].pc # "done" /\ tasks'[t].pc = "done") =>
           LET res == Summary(t)' IN
             /\ res.status = "failed" <=> CommitRaises(t)
             /\ res.status = "success" <=>
                  (Commits(t) /\ res.processed = res.total_events)
             /\ res.status = "partial" <=>
                  (Commits(t) /\ 0 < res.processed
                     /\ res.processed < res.total_events)]_vars

(***************************************************************************)
(* C17: mark_processed on an existing id sets processed = true and         *)
(* processed_at to the given time and clears processing_error; a call on   *)
(* a record that a call with the same arguments produced changes nothing;  *)
(* on an unknown id it returns not-found and changes nothing.              *)
(* Refuted: mark_processed does not touch processing_error (and takes no   *)
(* properties), so a record with a recorded error becomes processed with   *)
(* the error still on it.                                                  *)
(***************************************************************************)
C17_MarkProcessedSetsAll ==
    [][Calls("mark_processed") =>
         LET c == The(gatewayOps'.last) IN
           IF c.id \in Rows
           THEN /\ c.found
                /\ store'[c.id].processed
                /\ c.arg # None => store'[c.id].processed_at = c.arg
                /\ store'[c.id].processing_error = None
                /\ (store[c.id].processed /\ store[c.id].processed_at = c.arg)
                     => store'[c.id] = store[c.id]
                /\ \A id \in Rows : id # c.id => store'[id] = store[id]
           ELSE ~c.found /\ store' = store]_vars

(***************************************************************************)
(* C18: recording an error, by update_error or by an error path of the     *)
(* worker (validation error of process_event or of a batch, failure        *)
(* handler), changes processing_error only, to the message cut to 255      *)
(* characters; processed, processed_at and properties stay as they are,    *)
(* and a stored processing_error is never longer than 255.                 *)
(***************************************************************************)
C18_ErrorRecordChangesOnlyError ==
    [][/\ \A id \in Rows :
            /\ store[id].processing_error # None =>
                 The(store[id].processing_error).len <= 255
            /\ store'[id].processing_error # None =>
                 The(store'[id].processing_error).len <= 255
       /\ Calls("update_error") =>
            LET c == The(gatewayOps'.last) IN
              /\ \A id \in Rows : OnlyErrorChanges(id)
              /\ c.id \in Rows =>
                   store'[c.id].processing_error =
                     Some(Msg(c.arg.text, Min(c.arg.len, 255)))
              /\ \A id \in Rows : id # c.id => store'[id] = store[id]
       /\ \A t \in Singles :
            (Faulted(t) \/ Returned(t, "validation_error")) =>
              \A id \in Rows : OnlyErrorChanges(id)
       /\ \A t \in Batches :
            /\ Commits(t) =>
                 \A i \in 1..Len(tasks[t].ids) :
                   Summary(t)'.results[i].status = "validation_error" =>
                     /\ OnlyErrorChanges(tasks[t].ids[i])
                     /\ store'[tasks[t].ids[i]].processing_error # None
            /\ (tasks'[t] # tasks[t] /\ ~Commits(t)) => store' = store]_vars

C18_Witness ==
    /\ gatewayOps.last # None
    /\ The(gatewayOps.last).op = "update_error"
    /\ The(gatewayOps.last).arg.len > 255
    /\ The(gatewayOps.last).id \in Rows
    /\ store[The(gatewayOps.last).id].processing_error =
         Some(Msg(The(gatewayOps.last).arg.text, 255))
    /\ \E t \in Singles : tasks[t].pc = "done" /\ tasks[t].faults > 0

(***************************************************************************)
(* C19: a record created by ingestion has processed = false and            *)
(* processed_at, processing_error and properties null, whatever the client *)
(* submitted, and its properties stay null until a processing attempt      *)
(* completes successfully.                                                 *)
(* Refuted: EventService.create copies the properties of the request body  *)
(* into the new record.                                                    *)
(***************************************************************************)
C19_CreatedUnprocessed ==
    [][\A id \in 1..Len(store') :
         IF id \notin Rows
         THEN /\ ~store'[id].processed
              /\ store'[id].processed_at = None
              /\ store'[id].processing_error = None
              /\ store'[id].properties = None
         ELSE (store[id].properties = None /\ store'[id].properties # None)
                => \/ \E t \in Singles : Returned(t, "success")
                   \/ \E t \in Batches : Commits(t)]_vars

(***************************************************************************)
(* C20 as stated: validate rejects a payload as too deep exactly when some *)
(* value is nested deeper than 10 levels, the direct values of the         *)
(* top-level mapping being at depth 0 and each enclosing mapping or        *)
(* sequence adding one level.                                              *)
(***************************************************************************)
C20_TooDeepFromDirectValues ==
    [][\A t \in Singles :
         (tasks[t].pc = "fetched" /\ tasks'[t].pc = "done") =>
           (RejectedTooDeep(t) <=> Deepest(The(tasks[t].snap).payload, -1) > 10)]_vars

(***************************************************************************)
(* C20 amended: validate rejects a (serializable, not oversized) payload   *)
(* as too deep exactly when some value, scalars and empty containers       *)
(* included, lies deeper than 10 levels, the top-level mapping itself      *)
(* being at depth 0, its direct values at depth 1 and each enclosing       *)
(* mapping or sequence adding one level; a payload whose deepest value is  *)
(* at depth <= 10 is processed.                                            *)
(***************************************************************************)
C20_TooDeepFromTopLevel ==
    [][\A t \in Singles :
         (tasks[t].pc = "fetched" /\ tasks'[t].pc = "done") =>
           LET deepest == Deepest(The(tasks[t].snap).payload, 0) IN
             /\ RejectedTooDeep(t) <=> deepest > 10
             /\ deepest <= 10 => Returned(t, "success")]_vars

C20_Witness ==
    \E t \in Singles :
      /\ tasks[t].pc = "done" /\ StatusOf(t) = "validation_error"
      /\ Deepest(store[EventOf(t)].payload, 0) = 11
      /\ store[EventOf(t)].processing_error = TooDeepError

C22_ValidReturnedUnchanged ==
    [][\A t \in Singles :
         (tasks[t].pc = "fetched" /\ tasks'[t] # tasks[t]) =>
           LET p == The(tasks[t].snap).payload
               v == ValidatePayloadShape(p)
               given == IF p.t = "null" THEN JDict(<<>>) ELSE p
               valid == \/ p.t = "null"
                        \/ /\ p.t = "dict" /\ Serializable(p)
                           /\ JsonLen(p) < 1048576
                           /\ Deepest(p, -1) <= 10
           IN valid =>
                /\ v.ok /\ v.value = given
                /\ Returned(t, "success")
                /\ Get(The(store'[EventOf(t)].properties), "original") = given]_vars

(***************************************************************************)
(* C22 amended: a mapping payload that json.dumps accepts, with a          *)
(* serialized size below 1 MiB and no value deeper than 10 levels, the     *)
(* top-level mapping itself being at depth 0 and its direct values at      *)
(* depth 1, passes validation unchanged and is what normalize keeps as     *)
(* "original"; a null payload validates to the empty mapping.              *)
(***************************************************************************)
C22_ValidWithinCodeDepthUnchanged ==
    [][\A t \in Singles :
         (tasks[t].pc = "fetched" /\ tasks'[t] # tasks[t]) =>
           LET p == The(tasks[t].snap).payload
               v == ValidatePayloadShape(p)
               given == IF p.t = "null" THEN JDict(<<>>) ELSE p
               valid == \/ p.t = "null"
                        \/ /\ p.t = "dict" /\ Serializable(p)
                           /\ JsonLen(p) < 1048576
                           /\ Deepest(p, 0) <= 10
           IN valid =>
                /\ v.ok /\ v.value = given
                /\ Returned(t, "success")
                /\ Get(The(store'[EventOf(t)].properties), "original") = given]_vars

C22_Witness ==
    \E t \in Singles :
      /\ tasks[t].pc = "done" /\ StatusOf(t) = "success"
      /\ Deepest(store[EventOf(t)].payload, 0) = 10
      /\ Get(The(store[EventOf(t)].properties), "original") = store[EventOf(t)].payload

(***************************************************************************)
(* C23: the mapping process_event stores for a validated payload V has     *)
(* "original" equal to V and a "normalized_at" field; each of page,        *)
(* referrer, duration, scroll_depth is a top-level key of it exactly when  *)
(* it is a key of V, and it has no other top-level key.                    *)
(***************************************************************************)
C23_KnownKeysLifted ==
    [][\A t \in Singles :
         Returned(t, "success") =>
           LET V == The(tasks[t].snap).payload
               props == The(store'[EventOf(t)].properties)
               known == {"page", "referrer", "duration", "scroll_depth"}
           IN /\ Get(props, "original") = V
              /\ HasKey(props, "normalized_at")
              /\ \A k \in known : HasKey(props, k) <=> HasKey(V, k)
              /\ \A i \in 1..Len(props.v) :
                    /\ props.v[i].k \in known \cup {"original", "normalized_at"}
                    /\ \A j \in 1..Len(props.v) : props.v[j].k = props.v[i].k => j = i]_vars

C23_Witness ==
    \E t \in Singles :
      /\ tasks[t].pc = "done" /\ StatusOf(t) = "success"
      /\ LET V == store[EventOf(t)].payload
             props == The(store[EventOf(t)].properties)
         IN /\ HasKey(V, "plan") /\ HasKey(V, "duration") /\ ~HasKey(V, "page")
            /\ ~HasKey(props, "plan") /\ HasKey(props, "duration")
            /\ ~HasKey(props, "page")

(***************************************************************************)
(* C24: normalize never fails on a validated payload.  The attempt of      *)
(* process_event on a row with a valid payload returns success without a   *)
(* retry; duration and scroll_depth are lifted as the converted number,    *)
(* or 0.0 when the conversion fails, and page and referrer as the stripped *)
(* text, each from its own value only.                                     *)
(* Refuted: float() of an integer beyond the float range raises            *)
(* OverflowError, which "except (ValueError, TypeError)" does not catch.   *)
(***************************************************************************)
C24_NormalizeNeverFails ==
    [][\A t \in Singles :
         (tasks[t].pc = "fetched" /\ tasks'[t] # tasks[t]
            /\ ~Invalid(The(tasks[t].snap))) =>
           /\ Returned(t, "success")
           /\ NoRetry(t)
           /\ LET V == The(tasks[t].snap).payload
                  props == The(store'[EventOf(t)].properties)
              IN /\ \A k \in {"duration", "scroll_depth"} :
                       HasKey(V, k) =>
                         LET r == ToFloat(Get(V, k)) IN
                           Get(props, k) = JFloat(IF r.ok THEN r.value ELSE 0)
                 /\ \A k \in {"page", "referrer"} :
                       HasKey(V, k) => Get(props, k) = JStr(Strip(StrOf(Get(V, k))))]_vars

(***************************************************************************)
(* C25: with a store and a queue backend that answer and a worker that     *)
(* runs, every event with a valid payload whose submission returned        *)
(* status "enqueued" eventually has processed = true and processed_at      *)
(* set.                                                                    *)
(* Refuted: the attempts on a valid payload with an integer beyond the     *)
(* float range all end in the handler (C24) until the retries are used up. *)
(***************************************************************************)
C25_EnqueuedEventuallyProcessed ==
    \A id \in EventIds :
      (\E r \in Answered :
         /\ requests[r].status = "enqueued"
         /\ \E i \in 1..Len(requests[r].ids) : requests[r].ids[i] = id
         /\ ValidatePayloadShape(store[id].payload).ok)
        ~> (Exists(id) /\ store[id].processed /\ store[id].processed_at # None)

(***************************************************************************)
(* C26: a dispatch that failed (response status "stored") puts no task in  *)
(* the queue, and an unprocessed event that no task names stays            *)
(* unprocessed: the only step that makes a task for it is the dispatch of  *)
(* the request that created it, answered "enqueued".                       *)
(***************************************************************************)
C26_StoredStaysUnprocessed ==
    [][/\ \A r \in RequestIds :
            (requests[r].pc = "committed" /\ Len(requests') = Len(requests)
               /\ requests'[r].status = "stored") => tasks' = tasks
       /\ \A id \in Rows :
            LET named == \E t \in TaskIds : \E i \in 1..Len(tasks[t].ids) :
                           tasks[t].ids[i] = id
                named_after == \E t \in TaskIds : \E i \in 1..Len(tasks'[t].ids) :
                                 tasks'[t].ids[i] = id
            IN (~store[id].processed /\ ~named) =>
                 /\ ~store'[id].processed
                 /\ named_after =>
                      \E r \in RequestIds :
                        /\ requests[r].pc = "committed"
                        /\ \E i \in 1..Len(requests[r].ids) : requests[r].ids[i] = id
                        /\ requests'[r].status = "enqueued"]_vars

C26_Witness ==
    /\ requests = <<>>
    /\ \E id \in Rows :
         /\ ~store[id].processed
         /\ \A t \in TaskIds : \A i \in 1..Len(tasks[t].ids) : tasks[t].ids[i] # id

C28_CountIndependentOfOthers ==
    [][StatusRead =>
         LET u == ReadBody.user_id
             without == SelectSeq(store, LAMBDA row : row.user_id = u)
             settled == [id \in Rows |->
                           IF store[id].user_id = u THEN store[id]
                           ELSE [store[id] EXCEPT !.processed = TRUE]]
         IN /\ StatusBody(without, u).unprocessed_count = ReadBody.unprocessed_count
            /\ StatusBody(settled, u).unprocessed_count = ReadBody.unprocessed_count]_vars

(***************************************************************************)
(* C29: if a client reads unprocessed_count, then submits one event and    *)
(* sees it processed, the unprocessed_count it reads afterwards is at most *)
(* the one it read before.  The read before is a status response of the    *)
(* same user with total_count one less than now; the submitted event is    *)
(* the newest of the user and is processed when the second read is made.   *)
(* Refuted: the count covers the events of all users (C28).                *)
(***************************************************************************)
C29_CountNotAboveEarlierRead ==
    [][StatusRead =>
         LET u == ReadBody.user_id IN
         \A r \in EarlierReads(u) :
           (/\ ReadBody.total_count = requests[r].body.total_count + 1
            /\ \E id \in OwnedBy(u) :
                 /\ \A j \in OwnedBy(u) : j <= id
                 /\ store[id].processed)
             => ReadBody.unprocessed_count <= requests[r].body.unprocessed_count]_vars

(***************************************************************************)
(* C30: a successful ingestion of one event by a user raises the number of *)
(* records of that user by one, above every total_count the user has read  *)
(* before; no step of the ingestion routes or of the workers lowers the    *)
(* number of records of a user, and total_count is that number.            *)
(***************************************************************************)
C30_TotalCountGrows ==
    [][\A u \in Owners :
         LET before == Cardinality(OwnedBy(u))
             after == Cardinality({id \in 1..Len(store') : store'[id].user_id = u})
         IN /\ after >= before
            /\ Ingests(u) =>
                 /\ after = before + 1
                 /\ StatusBody(store', u).total_count = after
                 /\ \A r \in EarlierReads(u) :
                      after >= requests[r].body.total_count + 1]_vars

C30_Witness ==
    \E r \in RequestIds :
      /\ requests[r].route = "status"
      /\ requests[r].body.user_id = "u2"
      /\ requests[r].body.total_count = 0
      /\ Cardinality(OwnedBy("u2")) = 1
      /\ \E id \in OwnedBy("u1") : store[id].processed

(***************************************************************************)
(* C31: a step of process_event or process_events_batch leaves the number  *)
(* of records, the position (id) of every record and its owner,            *)
(* event_name, event_type and payload as they are, and leaves every record *)
(* whose id the task was not given entirely as it is.                      *)
(***************************************************************************)
C31_WorkerWritesOnlyStatusFields ==
    [][\A t \in TaskIds :
         Acts(t) =>
           /\ Len(store') = Len(store)
           /\ \A id \in Rows :
                /\ store'[id].user_id = store[id].user_id
                /\ store'[id].event_name = store[id].event_name
                /\ store'[id].event_type = store[id].event_type
                /\ store'[id].payload = store[id].payload
                /\ ~Names(tasks[t], id) => store'[id] = store[id]]_vars

C31_Witness ==
    \E t \in Batches :
      /\ tasks[t].pc = "done" /\ Summary(t).processed = 1
      /\ tasks[t].ids = <<2, 2>>
      /\ store[2].processed /\ ~store[1].processed
      /\ Processable(store[1])

(***************************************************************************)
(* C36: processed is monotonic.  No step of process_event, of              *)
(* process_events_batch, of mark_processed or of update_error takes a      *)
(* record with processed = true back to processed = false, or sets         *)
(* properties or processed_at of such a record back to null.               *)
(***************************************************************************)
C36_ProcessedIsMonotonic ==
    [][\A id \in Rows :
         store[id].processed =>
           /\ store'[id].processed
           /\ store[id].properties # None => store'[id].properties # None
           /\ store[id].processed_at # None => store'[id].processed_at # None]_vars

C36_Witness ==
    \E id \in Rows, t \in TaskIds :
      /\ store[id].processed /\ store[id].properties # None
      /\ store[id].processing_error # None
      /\ gatewayOps.calls = 1 /\ The(gatewayOps.last).op = "update_error"
      /\ tasks[t].pc = "done" /\ Names(tasks[t], id)

(***************************************************************************)
(* C32: process_events_batch handles the ids in the submitted order.       *)
(* Every iteration appends the result of the next id of the list to the    *)
(* results collected so far; the returned results list has one entry per   *)
(* submitted id, in the order of the list, and the events processed in     *)
(* one execution carry timestamps in that order.                           *)
(***************************************************************************)
C32_ResultsInSubmittedOrder ==
    [][\A t \in Batches :
         /\ (Acts(t) /\ tasks'[t].pc = "looping") =>
              LET before == ResultsSoFar(t)
                  after == The(tasks'[t].snap).results
              IN /\ after = Append(before, after[Len(after)])
                 /\ after[Len(after)].event_id = tasks[t].ids[Len(after)]
         /\ Ends(t) =>
              LET ids == tasks[t].ids
                  res == Summary(t)'.results
              IN /\ res = ResultsSoFar(t)
                 /\ Len(res) = Len(ids)
                 /\ \A i \in 1..Len(ids) : res[i].event_id = ids[i]
                 /\ Commits(t) =>
                      \A i, j \in 1..Len(ids) :
                        (i < j /\ res[i].status = "processed"
                               /\ res[j].status = "processed") =>
                          The(store'[ids[i]].processed_at)
                            < The(store'[ids[j]].processed_at)]_vars

C32_Witness ==
    \E t \in Batches :
      /\ tasks[t].pc = "done" /\ tasks[t].ids = <<2, 3, 1>>
      /\ Summary(t).results[1] = [event_id |-> 2, status |-> "processed"]
      /\ Summary(t).results[2] = [event_id |-> 3, status |-> "not_found"]
      /\ Summary(t).results[3] = [event_id |-> 1, status |-> "processed"]
      /\ The(store[2].processed_at) < The(store[1].processed_at)

(***************************************************************************)
(* C38 as stated: when an event id occurs more than once in the list of a  *)
(* batch, only its first occurrence is processed and every later           *)
(* occurrence yields already_processed (read for the ids that have a row,  *)
(* in executions without a store failure); the processed count is at most  *)
(* the number of distinct existing ids of the list.                        *)
(***************************************************************************)
C38_LaterOccurrencesAlreadyProcessed ==
    [][\A t \in Batches :
         (Ends(t) /\ tasks'[t].faults = 0) =>
           LET ids == tasks[t].ids
               res == Summary(t)'
           IN /\ \A i \in 1..Len(ids) :
                   (ids[i] \in Rows /\ ~FirstOccurrence(ids, i)) =>
                     res.results[i].status = "already_processed"
              /\ res.processed <= Cardinality({ids[i] : i \in 1..Len(ids)} \cap Rows)]_vars

(***************************************************************************)
(* C38 amended: at most one occurrence of an event id is processed in a    *)
(* batch, and every later occurrence of that id whose fetch does not raise *)
(* yields already_processed; an id whose row fails validation yields       *)
(* validation_error at each occurrence.  The processed count is at most    *)
(* the number of distinct existing ids of the list.                        *)
(***************************************************************************)
C38_ProcessedAtMostOncePerId ==
    [][\A t \in Batches :
         Ends(t) =>
           LET ids == tasks[t].ids
               res == Summary(t)'
           IN /\ \A i, j \in 1..Len(ids) :
                   (i < j /\ ids[i] = ids[j]) =>
                     /\ res.results[i].status \in {"processed", "already_processed"}
                          => res.results[j].status \in {"already_processed", "error"}
                     /\ res.results[j].status # "processed"
                          \/ res.results[i].status = "error"
                     /\ (res.results[i].status = "validation_error"
                            /\ res.results[j].status # "error")
                          => res.results[j].status = "validation_error"
              /\ res.processed = CountStatus(res.results, "processed")
              /\ res.processed <= Cardinality({ids[i] : i \in 1..Len(ids)} \cap Rows)]_vars

C38_Witness ==
    \E t \in Batches :
      /\ tasks[t].pc = "done" /\ tasks[t].ids = <<1, 1, 1>>
      /\ Summary(t).results[1].status = "error"
      /\ Summary(t).results[2].status = "processed"
      /\ Summary(t).results[3].status = "already_processed"
      /\ Summary(t).processed = 1

(***************************************************************************)
(* C39: every result process_events_batch returns, after a commit that     *)
(* succeeded or failed, has total_events = number of submitted ids =       *)
(* number of per-id results, and processed + failed + the number of        *)
(* not_found results + the number of already_processed results =           *)
(* total_events.                                                           *)
(***************************************************************************)
C39_SummaryAddsUp ==
    [][\A t \in Batches :
         Ends(t) =>
           LET res == Summary(t)' IN
             /\ res.total_events = Len(tasks[t].ids)
             /\ res.total_events = Len(res.results)
             /\ res.processed + res.failed
                  + CountStatus(res.results, "not_found")
                  + CountStatus(res.results, "already_processed") = res.total_events]_vars

C39_Witness ==
    \E t \in Batches :
      /\ tasks[t].pc = "done" /\ tasks[t].faults > 0
      /\ Summary(t).status = "failed" /\ Summary(t).total_events = 3
      /\ Summary(t).processed = 1 /\ Summary(t).failed = 1
      /\ CountStatus(Summary(t).results, "already_processed") = 1

(***************************************************************************)
(* C40: process_events_batch schedules no retry and raises nothing.  A     *)
(* store access that raises while one id is handled becomes the result     *)
(* "error" of that id, counted as failed, and the loop goes on with the    *)
(* next id; the task ends by returning a summary with a status, the three  *)
(* counts and one result per id.                                           *)
(***************************************************************************)
C40_BatchNeverRetriesNorRaises ==
    [][\A t \in Batches :
         /\ NoRetry(t)
         /\ tasks'[t].pc \in {"queued", "looping", "done"}
         /\ (Faulted(t) /\ ~Ends(t)) =>
              LET s == The(Begun(tasks[t]).snap)
                  s2 == The(tasks'[t].snap)
              IN /\ tasks'[t].pc = "looping"
                 /\ s2.results =
                      Append(s.results, [event_id |-> tasks[t].ids[s.pos], status |-> "error"])
                 /\ s2.failed_count = s.failed_count + 1
                 /\ s2.processed_count = s.processed_count
                 /\ s2.pos = s.pos + 1
         /\ Ends(t) =>
              LET res == Summary(t)' IN
                /\ res.status \in {"success", "partial", "failed"}
                /\ Len(res.results) = Len(tasks[t].ids)
                /\ res.failed >= CountStatus(res.results, "error")
                /\ Faulted(t) <=> res.status = "failed"]_vars

C40_Witness ==
    \E t \in Batches :
      /\ tasks[t].pc = "done" /\ tasks[t].retries = 0
      /\ Summary(t).status = "partial"
      /\ Summary(t).results[1].status = "error"
      /\ Len(tasks[t].ids) = 2
      /\ Summary(t).results[2].status = "processed"
      /\ store[tasks[t].ids[2]].processed

(***************************************************************************)
(* C33: a retry of process_event starts from the fetch with nothing kept   *)
(* from the failed attempt: the step that schedules a retry leaves the     *)
(* task queued without a loaded object, and an execution of a retried      *)
(* task reads the record as it is committed then; if the event has been    *)
(* processed in between, it returns skipped and changes nothing.           *)
(***************************************************************************)
C33_RetryStartsFromFetch ==
    [][\A t \in Singles :
         /\ tasks'[t].retries > tasks[t].retries =>
              (tasks'[t].pc = "queued" /\ tasks'[t].snap = None)
         /\ (Started(t) /\ ~Faulted(t) /\ tasks[t].retries > 0
               /\ EventOf(t) \in Rows) =>
              IF store[EventOf(t)].processed
              THEN Returned(t, "skipped") /\ NoRetry(t) /\ store' = store
              ELSE tasks'[t].snap = Some(store[EventOf(t)])]_vars

C33_Witness ==
    \E t \in Singles :
      /\ tasks[t].pc = "done" /\ StatusOf(t) = "skipped"
      /\ tasks[t].retries = 1 /\ tasks[t].faults = 1 /\ tasks[t].execs = 2
      /\ store[EventOf(t)].processed

(***************************************************************************)
(* C34: when the error record of the handler cannot be written (the store  *)
(* is left as it was), the failure is swallowed: the step leaves the task  *)
(* as it would with the record written, queued for one more retry with     *)
(* countdown 2^retries while retries remain, and done with failed /        *)
(* retries_exhausted otherwise.                                            *)
(***************************************************************************)
C34_RecordFailureSwallowed ==
    [][\A t \in Singles :
         (Faulted(t) /\ store' = store) =>
           /\ tasks'[t].pc \in {"queued", "done"}
           /\ tasks'[t].pc = "queued" <=> tasks[t].retries < EVENT_MAX_RETRIES
           /\ tasks'[t].pc = "queued" =>
                /\ tasks'[t].retries = tasks[t].retries + 1
                /\ tasks'[t].delays = Append(tasks[t].delays, Pow2(tasks[t].retries))
           /\ tasks'[t].pc = "done" =>
                tasks'[t].result = Some([status |-> "failed", retries_exhausted |-> TRUE])]_vars

C34_Witness ==
    \E t \in Singles :
      /\ tasks[t].pc = "done" /\ StatusOf(t) = "failed"
      /\ tasks[t].faults = 4
      /\ EventOf(t) \in Rows
      /\ store[EventOf(t)].processing_error = None
      /\ ~store[EventOf(t)].processed

(***************************************************************************)
(* C35: whatever accesses of the store fail, a process_event task is       *)
(* executed at most EVENT_MAX_RETRIES + 1 times and retried at most        *)
(* EVENT_MAX_RETRIES times; it is never left raised, a queued task has     *)
(* executions left, and a finished task has one of the terminal results.   *)
(***************************************************************************)
C35_BoundedExecutions ==
    \A t \in Singles :
      /\ tasks[t].execs <= EVENT_MAX_RETRIES + 1
      /\ tasks[t].retries <= EVENT_MAX_RETRIES
      /\ tasks[t].pc \in {"queued", "fetched", "done"}
      /\ tasks[t].pc = "queued" => tasks[t].execs = tasks[t].retries
      /\ tasks[t].pc = "fetched" => tasks[t].execs = tasks[t].retries + 1
      /\ tasks[t].pc = "done" =>
           /\ tasks[t].execs = tasks[t].retries + 1
           /\ StatusOf(t) \in {"success", "skipped", "error", "validation_error", "failed"}

C35_Witness ==
    \E t \in Singles :
      /\ tasks[t].pc = "done" /\ StatusOf(t) = "success"
      /\ tasks[t].execs = EVENT_MAX_RETRIES + 1
      /\ tasks[t].retries = EVENT_MAX_RETRIES

(***************************************************************************)
(* C37: process_event returns validation_error only in the step that       *)
(* commits the validation message to processing_error.  When that commit   *)
(* raises, nothing of the attempt is committed: the step is handled as an  *)
(* infrastructure failure, with at most the "Processing error" record      *)
(* written, and ends in a retry or in failed.                              *)
(***************************************************************************)
C37_ValidationErrorAfterCommit ==
    [][\A t \in Singles :
         /\ Returned(t, "validation_error") =>
              /\ ~Faulted(t)
              /\ store'[EventOf(t)].processing_error =
                   Processed(The(tasks[t].snap), clock).obj.processing_error
              /\ store'[EventOf(t)].processing_error # None
         /\ (tasks[t].pc = "fetched" /\ Invalid(The(tasks[t].snap)) /\ Faulted(t)) =>
              /\ ~Returned(t, "validation_error")
              /\ \/ tasks'[t].pc = "queued" /\ tasks'[t].retries = tasks[t].retries + 1
                 \/ Returned(t, "failed")
              /\ \/ store' = store
                 \/ /\ OnlyErrorChanges(EventOf(t))
                    /\ The(store'[EventOf(t)].processing_error).text = "Processing error: "]_vars

C37_Witness ==
    \E t \in Singles :
      /\ tasks[t].pc = "done" /\ StatusOf(t) = "validation_error"
      /\ tasks[t].retries = 1 /\ tasks[t].faults = 1
      /\ The(store[EventOf(t)].processing_error).text = "Payload validation failed: "

====
